---- MODULE Spec2Model ----
(***************************************************************************)
(* Chuck Norris quote scraper: the write path of scraper/scraper.py        *)
(* (source list, fetcher, store, orchestrator) as a state machine.         *)
(*                                                                         *)
(* Text that the code searches or trims (URLs, lines of the source list,   *)
(* exception messages) is a sequence of one-character strings, so that     *)
(* str.strip, str.startswith and the `in` substring test are computed.     *)
(* Quote text is only ever compared for equality and is a TLA+ string.     *)
(***************************************************************************)
EXTENDS Integers, Sequences, FiniteSets, TLC

\* ------------------------------------------------------------------ bounds
MaxBatch == 2       \* records in one save_quotes_to_db batch
MaxCalls == 2       \* direct calls made in one behaviour of the store
MaxRetriesArg == 3  \* largest `retries` argument passed to fetch_url directly
MaxFetches == 2     \* direct fetch_url calls in one behaviour
MaxCreates == 3     \* create_database calls in one behaviour
MaxCsvCalls == 2     \* direct save_quotes_to_csv calls in one behaviour
MaxScrapes == 2      \* direct scrape_source calls in one behaviour
MaxSources == 2     \* entries of the sources list given to scrape_all_sources

\* The worker threads: two writers are enough for every conflict between calls.
\* MAX_RETRIES
MAX_RETRIES == 3

Threads == {1, 2}
MainThread == CHOOSE t \in Threads : \A o \in Threads : t <= o

RECURSIVE SeqSum(_)
SeqSum(s) == IF s = <<>> THEN 0 ELSE Head(s) + SeqSum(Tail(s))

Whitespace == {" ", "\n"}

RECURSIVE LStrip(_)
LStrip(s) == IF s # <<>> /\ Head(s) \in Whitespace THEN LStrip(Tail(s)) ELSE s

RECURSIVE RStrip(_)
RStrip(s) ==
    IF s # <<>> /\ s[Len(s)] \in Whitespace THEN RStrip(SubSeq(s, 1, Len(s) - 1)) ELSE s

\* str.strip()
Strip(s) == RStrip(LStrip(s))

\* str.endswith(p)
EndsWith(s, p) == Len(s) >= Len(p) /\ SubSeq(s, Len(s) - Len(p) + 1, Len(s)) = p

\* str.startswith(p)
StartsWith(s, p) == Len(s) >= Len(p) /\ SubSeq(s, 1, Len(p)) = p

\* sub in s
Contains(s, sub) ==
    \E k \in 1..(Len(s) - Len(sub) + 1) : SubSeq(s, k, k + Len(sub) - 1) = sub

\* f.readlines(): the text cut after every newline
RECURSIVE Readlines(_)
Readlines(text) ==
    IF text = <<>> THEN <<>>
    ELSE LET ends == {k \in 1..Len(text) : text[k] = "\n"}
             cut == IF ends = {} THEN Len(text)
                    ELSE CHOOSE k \in ends : \A j \in ends : k <= j
         IN  <<SubSeq(text, 1, cut)>> \o Readlines(SubSeq(text, cut + 1, Len(text)))

RECURSIVE Concat(_)
Concat(ls) == IF ls = <<>> THEN <<>> ELSE Head(ls) \o Concat(Tail(ls))

DigitChars == <<"0", "1", "2", "3", "4", "5", "6", "7", "8", "9">>

\* str(n) for n >= 0
RECURSIVE Digits(_)
Digits(n) ==
    IF n < 10 THEN <<DigitChars[n + 1]>>
    ELSE Digits(n \div 10) \o <<DigitChars[(n % 10) + 1]>>

\* ------------------------------------------------------------------ values
\* A value a parsed JSON document can hold in a field (json.loads).
JStr(s) == [t |-> "str", s |-> s]
JNull == [t |-> "null"]
JDict(f) == [t |-> "dict", f |-> f]
JList(items) == [t |-> "list", items |-> items]
JObject == JDict([id |-> JStr("x")])

U1 == <<"u", "1">>
U2 == <<"u", "2">>
U404 == <<"p", "4", "0", "4">>
U3 == <<"u", "3">>

\* What fetch_url returns: None, or response.text.
None == [kind |-> "None"]
EmptyText == [kind |-> "empty"]
JsonText(data) == [kind |-> "json", data |-> data]
HtmlText(elems) == [kind |-> "html", elems |-> elems]

\* Response bodies: JSON documents and an HTML page.
\*   ["a", {"joke": "b"}, null]
DocList == JsonText(JList(<<JStr("a"), JDict([joke |-> JStr("b")]), JNull>>))
\*   {"value": "a", "joke": "c"}
DocSingle == JsonText(JDict([value |-> JStr("a"), joke |-> JStr("c")]))
\*   {"result": [{"value": "b"}, {"value": null}]}
DocNull ==
    JsonText(JDict([result |-> JList(<<JDict([value |-> JStr("b")]),
                                       JDict([value |-> JNull])>>)]))
\*   {"value": ""}
DocEmpty == JsonText(JDict([value |-> JStr("")]))
\*   {"id": "x"}
DocNoField == JsonText(JObject)
\* The texts the pages below hold, each standing for a text of the length
\* given by TextLen; HasMarker tells whether "chuck norris" occurs in
\* text.lower().  "n" is the text "c" behind the numbering "1. ".
TextLen(text) ==
    CASE text = "A" -> 1
      [] text = "a" -> 11
      [] text = "s" -> 20
      [] text = "c" -> 30
      [] text = "d" -> 30
      [] text = "n" -> 33
      [] text = "L" -> 500
      [] OTHER -> 0

HasMarker(text) == text \in {"s", "c", "n", "L"}

\* An element of a page: its tag, its class attribute, the class of the div
\* it lies in, and get_text(strip=True).
Elem(tag, class, within, text) ==
    [tag |-> tag, class |-> class, within |-> within,
     quoteClass |-> class \in {"quote", "quote-text"},
     text |-> text, len |-> TextLen(text), marker |-> HasMarker(text)]

\*   <blockquote>A</blockquote><p class="quote">a</p><p>Chuck Norris c</p>
DocHtml ==
    HtmlText(<<Elem("blockquote", "", "", "A"), Elem("p", "quote", "", "a"),
               Elem("p", "", "", "c")>>)
\*   <blockquote class="quote">Chuck Norris c</blockquote>
DocTwice == HtmlText(<<Elem("blockquote", "quote", "", "c")>>)
\*   <div class="article-body"><p class="joke">Chuck Norris c</p></div>
\*   <li>1. Chuck Norris c</li><li class="fact">Chuck Norris s</li>
DocArticle ==
    HtmlText(<<Elem("p", "joke", "article-body", "c"), Elem("li", "", "", "n"),
               Elem("li", "fact", "", "s")>>)
\*   <div class="fact">Chuck Norris L</div><div class="quote">d</div>
\*   <p>Chuck Norris c</p>
DocLong ==
    HtmlText(<<Elem("div", "fact", "", "L"), Elem("div", "quote", "", "d"),
               Elem("p", "", "", "c")>>)

\* Sources whose address holds the name of a site with a profile of its own.
UParade == <<"parade.com", "/", "j">>
UFactsite == <<"thefactsite.com", "/", "j">>
UFr == <<"chucknorrisfacts.fr", "/", "j">>
UFactinate == <<"factinate.com", "/", "j">>

\* What one GET can meet.
Ok(text) == [kind |-> "ok", text |-> text]
HttpError(status) == [kind |-> "HTTPError", status |-> status]
NetworkError == [kind |-> "RequestException"]

\* ------------------------------------------------------------------ state
VARIABLES
    dbSchema,     \* "none" | "legacy" | "current": shape of table quotes
    dbIndex,      \* idx_quote exists
    rows,         \* committed rows of table quotes, in rowid order
    dbMigrated,   \* migrations of the legacy schema performed
    dbLock,       \* thread holding SQLite's write lock, 0 when free
    sourcesFile,  \* SOURCES_FILE: [exists, text]
    sources0,     \* the text of SOURCES_FILE at the start
    web,          \* url -> the responses a GET of it can meet
    parallel,     \* whether direct calls of different threads may overlap
    th,           \* per thread: position and locals of the running call
    calls,        \* direct calls started so far
    csvFile,      \* the CSV output file: [exists, rows]
    orch,         \* scrape_all_sources: arguments, position and locals
    unit,         \* per entry of sources: the progress of its scrape_source
    mainv,        \* scraper main(): arguments, position, exit code
    created,      \* create_database calls completed, and whether one raised
    gen,          \* quote generator: random state, generate_quotes calls
    out           \* export_quotes: the destination file and stdout

storeVars == <<dbSchema, dbIndex, dbMigrated, rows, dbLock>>
fileVars == <<sourcesFile, sources0>>
envVars == <<web, parallel>>
runVars == <<csvFile, orch, unit>>
toolVars == <<mainv, created, gen, out>>
vars == <<dbSchema, dbIndex, dbMigrated, rows, dbLock, sourcesFile, sources0, web, parallel,
          th, calls, csvFile, orch, unit, mainv, created, gen, out>>

Frame0 ==
    [pc |-> "idle", call |-> "none",
     \* save_quotes_to_db
     quotes |-> <<>>, len |-> 0, i |-> 0, saved_count |-> 0, duplicate_count |-> 0,
     txn |-> <<>>, ret |-> 0,
     \* history of the call, read by the properties only
     offered |-> {}, base |-> {}, grew |-> 0, err |-> "none", other |-> FALSE,
     after |-> FALSE,
     \* fetch_url
     url |-> <<>>, retries |-> 0, attempt |-> 0, result |-> None,
     gets |-> 0, sleeps |-> 0, oks |-> 0, n404 |-> 0, last |-> None, cos_calls |-> 0,
     \* comment_out_source
     reason |-> <<>>, lines |-> <<>>, before |-> <<>>,
     \* scrape_source
     task |-> 0, fi |-> 0, total_saved |-> 0, file_exists |-> FALSE,
     \* history of the thread's direct save_quotes_to_csv calls: the batches
     \* it gave, in call order, and the file before the first of them
     given |-> <<>>, file0 |-> [exists |-> FALSE, rows |-> <<>>],
     \* the table before the thread's direct scrape_source call
     store0 |-> <<>>]

\* ------------------------------------------------------------------ store
QuoteTexts(table) == {table[k].quote : k \in DOMAIN table}

MaxId(table) ==
    IF table = <<>> THEN 0
    ELSE CHOOSE m \in {table[k].id : k \in DOMAIN table} :
             \A k \in DOMAIN table : table[k].id <= m

\* id INTEGER PRIMARY KEY AUTOINCREMENT
NextRowId(table) == MaxId(table) + 1

\* quote TEXT NOT NULL UNIQUE: SQLite compares TEXT byte for byte.
UniqueViolationNone(table, q) == FALSE
UniqueViolation(table, q) == q \in QuoteTexts(table)

\* What cursor.execute("INSERT INTO quotes (quote, source) VALUES (?, ?)")
\* does with one record against the table as the connection sees it: "ok" or
\* the message of the error it raises.
ExecuteInsert(quote_data, table, schema) ==
    IF schema = "none" THEN "no such table"
    ELSE IF quote_data.quote.t \in {"dict", "list"} THEN "type not supported"
    ELSE IF quote_data.quote.t = "null" THEN "NOT NULL constraint failed"
    ELSE IF UniqueViolation(table, quote_data.quote.s) THEN "UNIQUE constraint failed"
    ELSE "ok"

\* The errors that are an sqlite3.IntegrityError, which the loop catches.
IntegrityErrorNotNullOnly(outcome) == outcome = "NOT NULL constraint failed"
IntegrityError(outcome) ==
    outcome \in {"UNIQUE constraint failed", "NOT NULL constraint failed"}

\* The statement reaches the database file (and needs the write lock) unless
\* it fails while being prepared or bound.
NeedsLockNever(outcome) == FALSE
NeedsLock(outcome) ==
    outcome \in {"ok", "UNIQUE constraint failed", "NOT NULL constraint failed"}

NewRow(quote_data, table) ==
    [id |-> NextRowId(table), quote |-> quote_data.quote.s, source |-> quote_data.source]

\* INSERT INTO quotes_new (quote, source) SELECT quote, source FROM quotes:
\* the rows are copied in rowid order and numbered afresh.
MigrateRowsReversed(table) ==
    [k \in DOMAIN table |->
        [id |-> k, quote |-> table[Len(table) + 1 - k].quote,
         source |-> table[Len(table) + 1 - k].source]]
MigrateRows(table) ==
    [k \in DOMAIN table |-> [id |-> k, quote |-> table[k].quote, source |-> table[k].source]]

\* The records a direct caller may pass: text quotes (the same text from two
\* sources, and a text differing only in case), a null and an unsupported value.
StoreRecords ==
    { [quote |-> JStr("a"), source |-> U1],
      [quote |-> JStr("a"), source |-> U2],
      [quote |-> JStr("A"), source |-> U1],
      [quote |-> JNull, source |-> U1],
      [quote |-> JObject, source |-> U2] }

\* Stores the program itself can have left behind: ids are 1..n.
InitialRows ==
    { <<>>,
      <<[id |-> 1, quote |-> "a", source |-> U2]>> }

\* save_quotes_to_db: entry, up to the loop.  A direct caller's batch has
\* `len` records, read one per iteration; scrape_source passes `quotes`.
SaveEnter(f, quotes, len) ==
    LET g == [f EXCEPT !.quotes = quotes, !.len = len, !.i = 1,
                       !.saved_count = 0, !.duplicate_count = 0, !.txn = <<>>,
                       !.offered = {}, !.base = {}, !.grew = 0, !.err = "none",
                       !.other = FALSE, !.after = FALSE]
    IN  IF len = 0
        THEN [g EXCEPT !.pc = "returned", !.ret = 0]     \* if not quotes: return 0
        ELSE [g EXCEPT !.pc = "insert"]

\* ------------------------------------------------------------------ extraction
\* What one item of a JSON list contributes.
ItemQuotesJokeFirst(item, source) ==
    IF item.t = "dict"
    THEN IF "joke" \in DOMAIN item.f
         THEN <<[quote |-> item.f.joke, source |-> source]>>
         ELSE IF "value" \in DOMAIN item.f
         THEN <<[quote |-> item.f.value, source |-> source]>>
         ELSE <<>>
    ELSE IF item.t = "str" THEN <<[quote |-> item, source |-> source]>>
    ELSE <<>>

ItemQuotes(item, source) ==
    IF item.t = "dict"
    THEN IF "value" \in DOMAIN item.f
         THEN <<[quote |-> item.f.value, source |-> source]>>
         ELSE IF "joke" \in DOMAIN item.f
         THEN <<[quote |-> item.f.joke, source |-> source]>>
         ELSE <<>>
    ELSE IF item.t = "str" THEN <<[quote |-> item, source |-> source]>>
    ELSE <<>>

RECURSIVE ItemsQuotes(_, _)
ItemsQuotes(items, source) ==
    IF items = <<>> THEN <<>>
    ELSE ItemQuotes(Head(items), source) \o ItemsQuotes(Tail(items), source)

extract_quotes_from_json(content, source) ==
    IF content.kind # "json" THEN <<>>        \* json.JSONDecodeError, logged
    ELSE LET data == content.data
         IN  IF data.t = "dict"
             THEN IF "value" \in DOMAIN data.f
                  THEN <<[quote |-> data.f.value, source |-> source]>>
                  ELSE IF "joke" \in DOMAIN data.f
                  THEN <<[quote |-> data.f.joke, source |-> source]>>
                  ELSE IF "result" \in DOMAIN data.f /\ data.f.result.t = "list"
                  THEN ItemsQuotes(data.f.result.items, source)
                  ELSE <<>>
             ELSE IF data.t = "list" THEN ItemsQuotes(data.items, source)
             ELSE <<>>

\* The records of the elements selected from a page, in document order.
ElemQuotes(elems, source) ==
    [k \in DOMAIN elems |-> [quote |-> JStr(elems[k].text), source |-> source]]

\* The generic profile: blockquotes, then elements whose class contains
\* "quote", then, only if these gave nothing, paragraphs.
extract_quotes_from_html(content, source) ==
    IF content.kind # "html" THEN <<>>
    ELSE LET blockquotes == ElemQuotes(SelectSeq(content.elems,
                                LAMBDA e : e.tag = "blockquote" /\ e.len > 0), source)
             classed == ElemQuotes(SelectSeq(content.elems,
                                LAMBDA e : e.quoteClass /\ e.len > 0 /\ e.len > 10), source)
             paragraphs == ElemQuotes(SelectSeq(content.elems,
                                LAMBDA e : e.tag = "p" /\ e.marker /\ e.len > 20), source)
         IN  IF blockquotes \o classed # <<>> THEN blockquotes \o classed
             ELSE paragraphs

\* re.sub(r"^\d+\.\s*", "", text): the text behind a leading numbering.
StripNumbering(text) == IF text = "n" THEN "c" ELSE text

\* The filter of the site profiles:
\*   text and len(text) > 20 and len(text) < 500 and "chuck norris" in text.lower()
KeepsNonEmpty(text) == TextLen(text) > 0
Keeps(text) ==
    TextLen(text) > 0 /\ TextLen(text) > 20 /\ TextLen(text) < 500 /\ HasMarker(text)

\* soup.select(selector): the elements a selector matches, in document order.
Matches(selector, e) ==
    CASE selector = "blockquote" -> e.tag = "blockquote"
      [] selector = "p" -> e.tag = "p"
      [] selector = "li" -> e.tag = "li"
      [] selector = "div.article-body p" -> e.tag = "p" /\ e.within = "article-body"
      [] selector = "div.fact" -> e.tag = "div" /\ e.class = "fact"
      [] selector = "div.quote" -> e.tag = "div" /\ e.class = "quote"
      [] selector = "[class*='quote']" -> e.class \in {"quote", "quote-text"}
      [] selector = "[class*='joke']" -> e.class = "joke"
      [] selector = "[class*='fact']" -> e.class = "fact"
      [] OTHER -> FALSE

\* for selector in selectors: for elem in soup.select(selector): the texts
\* kept, numbering stripped first where the profile does so.
RECURSIVE SelectAll(_, _, _, _)
SelectAll(selectors, elems, strip, source) ==
    IF selectors = <<>> THEN <<>>
    ELSE LET hit == SelectSeq(elems, LAMBDA e : Matches(Head(selectors), e))
             texts == [k \in DOMAIN hit |->
                          IF strip THEN StripNumbering(hit[k].text) ELSE hit[k].text]
             kept == SelectSeq(texts, Keeps)
         IN  [k \in DOMAIN kept |-> [quote |-> JStr(kept[k]), source |-> source]]
             \o SelectAll(Tail(selectors), elems, strip, source)

\* "Remove duplicates": the records whose text was not seen before.
RECURSIVE UniqueFrom(_, _)
UniqueFrom(quotes, seen) ==
    IF quotes = <<>> THEN <<>>
    ELSE IF Head(quotes).quote \in seen THEN UniqueFrom(Tail(quotes), seen)
    ELSE <<Head(quotes)>> \o UniqueFrom(Tail(quotes), seen \cup {Head(quotes).quote})

unique_quotesKeepsAll(quotes) == quotes
unique_quotes(quotes) == UniqueFrom(quotes, {})

extract_quotes_from_parade(content, source) ==
    IF content.kind # "html" THEN <<>>
    ELSE unique_quotes(SelectAll(<<"div.article-body p", "p", "li", "[class*='joke']",
                                   "[class*='fact']">>, content.elems, FALSE, source))

\* The <li> items the regular expression finds.
extract_quotes_from_thefactsite(content, source) ==
    IF content.kind # "html" THEN <<>>
    ELSE SelectAll(<<"li">>, content.elems, TRUE, source)

extract_quotes_from_chucknorrisfacts_fr(content, source) ==
    IF content.kind # "html" THEN <<>>
    ELSE SelectAll(<<"div.fact", "p", "li", "[class*='fact']">>, content.elems, TRUE, source)

extract_quotes_from_factinate(content, source) ==
    IF content.kind # "html" THEN <<>>
    ELSE SelectAll(<<"blockquote", "div.quote", "p", "[class*='quote']",
                     "[class*='joke']">>, content.elems, FALSE, source)

\* "site" in source
InSource(site, source) == \E k \in DOMAIN source : source[k] = site

\* extract_quotes(content, source) with content_type "auto": HTML goes to the
\* profile of the site the source names, else to the generic profile.
extract_quotes(content, source) ==
    IF content.kind = "json" THEN extract_quotes_from_json(content, source)
    ELSE IF InSource("parade.com", source) THEN extract_quotes_from_parade(content, source)
    ELSE IF InSource("thefactsite.com", source)
    THEN extract_quotes_from_thefactsite(content, source)
    ELSE IF InSource("chucknorrisfacts.fr", source)
    THEN extract_quotes_from_chucknorrisfacts_fr(content, source)
    ELSE IF InSource("factinate.com", source)
    THEN extract_quotes_from_factinate(content, source)
    ELSE extract_quotes_from_html(content, source)

\* ------------------------------------------------------------------ scrape_source
\* The local steps of scrape_source between two accesses of shared state.
ScrapeReturn(f, value) == [f EXCEPT !.pc = "returned", !.ret = value]

\* for fmt in formats, from index f.fi; both paths are given.
RECURSIVE NextFormat(_)
NextFormat(f) ==
    IF f.fi > Len(orch.formats) THEN ScrapeReturn(f, f.total_saved)
    ELSE LET fmt == orch.formats[f.fi]
         IN  IF fmt = "csv" THEN [f EXCEPT !.pc = "csv_exists"]
             ELSE IF fmt = "sqlite" THEN SaveEnter(f, f.quotes, Len(f.quotes))
             ELSE NextFormat([f EXCEPT !.fi = @ + 1])       \* saved = 0

\* A save function returns `value` to whoever called it.
SaveReturn(f, value) ==
    IF f.call # "scrape_source" THEN [f EXCEPT !.pc = "returned", !.ret = value]
    ELSE NextFormat([f EXCEPT !.total_saved = @ + value, !.fi = @ + 1])

\* scrape_source:700, `if not content:`.
NoContentNever(content) == FALSE
NoContent(content) == content = None \/ content = EmptyText

\* From `content = fetch_url(source_url)` to the first save.
AfterFetch(f) ==
    IF NoContent(f.result) THEN ScrapeReturn(f, 0)
    ELSE IF f.result = None THEN [f EXCEPT !.pc = "raised"]   \* json.loads(None): TypeError
    ELSE LET quotes == extract_quotes(f.result, f.url)
         IN  IF quotes = <<>> THEN ScrapeReturn(f, 0)
             ELSE NextFormat([f EXCEPT !.quotes = quotes, !.total_saved = 0, !.fi = 1])

\* ------------------------------------------------------------------ store: actions
SaveCall(t) ==
    /\ th[t].pc \in {"idle", "returned", "raised"}
    /\ calls < MaxCalls
    /\ \E len \in 0..MaxBatch :
         th' = [th EXCEPT ![t] =
                  [SaveEnter(@, <<>>, len) EXCEPT !.call = "save_quotes_to_db"]]
    /\ calls' = calls + 1
    /\ UNCHANGED <<storeVars, fileVars, envVars, toolVars, runVars>>

\* The record of iteration i.
RecordAt(f) ==
    IF f.call = "save_quotes_to_db" THEN StoreRecords ELSE {f.quotes[f.i]}

\* One iteration of `for quote_data in quotes`, for the frame f of thread t.
InsertStep(f, t, quote_data) ==
    LET table == rows \o f.txn
        outcome == ExecuteInsert(quote_data, table, dbSchema)
        text == quote_data.quote.t = "str"
        g == [f EXCEPT !.offered = IF text THEN f.offered \cup {quote_data.quote.s}
                                   ELSE f.offered,
                       !.base = IF dbLock = t \/ ~NeedsLock(outcome)
                                THEN f.base ELSE QuoteTexts(rows)]
    IN  IF outcome = "ok"
        THEN [g EXCEPT !.txn = Append(f.txn, NewRow(quote_data, table)),
                       !.saved_count = f.saved_count + 1,
                       !.i = f.i + 1,
                       !.after = f.after \/ f.duplicate_count > 0]
        ELSE IF IntegrityError(outcome) /\ text
        THEN \* except sqlite3.IntegrityError: counted, the loop goes on
             [g EXCEPT !.duplicate_count = f.duplicate_count + 1, !.i = f.i + 1,
                       !.other = f.other \/ \E k \in DOMAIN rows :
                                     /\ rows[k].quote = quote_data.quote.s
                                     /\ rows[k].source # quote_data.source]
        ELSE \* the error leaves the loop (for a null quote it is the TypeError
             \* of quote_data['quote'][:50] in the handler); finally:
             \* conn.close() without commit rolls the transaction back
             [g EXCEPT !.pc = "raised", !.txn = <<>>, !.err = outcome]

\* finally: cursor.close(); conn.close().  Closing the connection before
\* conn.commit() was reached leaves none of the transaction's rows in the table.
ClosedCommits(txn) == txn
Closed(txn) == <<>>

SaveInsert(t) ==
    /\ th[t].pc = "insert"
    /\ th[t].i <= th[t].len
    /\ \E quote_data \in RecordAt(th[t]) :
         LET outcome == ExecuteInsert(quote_data, rows \o th[t].txn, dbSchema)
             g == InsertStep(th[t], t, quote_data)
         IN  /\ NeedsLock(outcome) => dbLock \in {0, t}
             /\ th' = [th EXCEPT ![t] = g]
             /\ rows' = IF g.pc = "raised" THEN rows \o Closed(th[t].txn) ELSE rows
             /\ dbLock' = IF g.pc = "raised"
                          THEN (IF dbLock = t THEN 0 ELSE dbLock)
                          ELSE t
    /\ UNCHANGED <<dbSchema, dbIndex, dbMigrated, calls, fileVars, envVars,
                   toolVars, runVars>>

\* conn.commit(), close, return saved_count.
SaveCommit(t) ==
    /\ th[t].pc = "insert"
    /\ th[t].i > th[t].len
    /\ rows' = rows \o th[t].txn
    /\ dbLock' = IF dbLock = t THEN 0 ELSE dbLock
    /\ th' = [th EXCEPT ![t] = SaveReturn([@ EXCEPT !.grew = Len(th[t].txn), !.txn = <<>>],
                                           th[t].saved_count)]
    /\ UNCHANGED <<dbSchema, dbIndex, dbMigrated, calls, fileVars, envVars, toolVars, runVars>>

\* cursor.fetchone() of the query on sqlite_master finds table quotes.
TableExistsNever(schema) == FALSE
TableExists(schema) == schema # "none"

\* "created_at" in columns
HasCreatedAt(schema) == schema = "legacy"

\* The store as create_database meets it.
Store ==
    [schema |-> dbSchema, index |-> dbIndex, rows |-> rows, migrated |-> dbMigrated,
     raised |-> FALSE]

\* create_database(db_path): the store it leaves, and whether it raised.
create_database(db) ==
    IF TableExists(db.schema)
    THEN IF HasCreatedAt(db.schema)
         THEN \* CREATE TABLE quotes_new, copy, DROP TABLE quotes, rename, index
              [db EXCEPT !.schema = "current", !.index = TRUE,
                         !.rows = MigrateRows(db.rows), !.migrated = @ + 1]
         ELSE db
    ELSE IF db.schema # "none"
         THEN [db EXCEPT !.raised = TRUE]     \* table quotes already exists
         ELSE [db EXCEPT !.schema = "current", !.index = TRUE]

\* The create_database of scraper/loader.py, which the package re-exports
\* (scraper/__init__.py); scraper/storage.py holds the same text.
loader_create_database(db) ==
    IF TableExists(db.schema)
    THEN db
    ELSE IF db.schema # "none" THEN [db EXCEPT !.raised = TRUE]
         ELSE [db EXCEPT !.schema = "current", !.index = TRUE]

SetStore(db) ==
    /\ dbSchema' = db.schema
    /\ dbIndex' = db.index
    /\ rows' = db.rows
    /\ dbMigrated' = db.migrated

\* create_database(db_path)
CreateDatabase ==
    /\ dbLock = 0
    /\ SetStore(create_database(Store))
    /\ UNCHANGED <<dbLock, th, calls, fileVars, envVars, toolVars, runVars>>

\* Neither main() nor the quote generator is running.
NoTools ==
    /\ mainv = [pc |-> "none"]
    /\ created = [calls |-> 0, raised |-> FALSE, first |-> <<>>, impl |-> "scraper"]
    /\ gen = [pc |-> "none"]
    /\ out = [pc |-> "none"]

\* scrape_all_sources is not running.
NoRun ==
    /\ csvFile = [exists |-> FALSE, rows |-> <<>>]
    /\ orch = [pc |-> "none", sources |-> <<>>, formats |-> <<>>, max_workers |-> 0,
               k |-> 0, total_saved |-> 0, rows0 |-> <<>>, overlapped |-> FALSE,
               inverted |-> FALSE]
    /\ unit = <<>>

InitStore ==
    /\ NoRun
    /\ NoTools
    /\ dbSchema \in {"none", "legacy", "current"}
    /\ dbIndex \in BOOLEAN
    /\ dbSchema = "none" => ~dbIndex
    /\ rows \in InitialRows
    /\ dbSchema = "none" => rows = <<>>
    /\ dbMigrated = 0
    /\ dbLock = 0
    /\ th = [t \in Threads |-> Frame0]
    /\ calls = 0
    /\ sourcesFile = [exists |-> FALSE, text |-> <<>>]
    /\ sources0 = <<>>
    /\ web = [u \in {} |-> {}]
    /\ parallel = TRUE

NextStore ==
    \/ \E t \in Threads : SaveCall(t)
    \/ \E t \in Threads : SaveInsert(t)
    \/ \E t \in Threads : SaveCommit(t)
    \/ CreateDatabase

SpecStore == InitStore /\ [][NextStore]_vars

\* ------------------------------------------------------------------ store: properties

\* C1: in every reachable state of the store, whatever calls of
\* save_quotes_to_db and create_database have run or are running, no two
\* persisted rows carry the same quote text (compared exactly, case included).
C1_UniqueQuoteText ==
    \A j, k \in DOMAIN rows : j # k => rows[j].quote # rows[k].quote

\* Two calls offered the text "a"; one stored it, the other counted it as a
\* duplicate, and "A" is stored beside "a".
C1_Witness ==
    \E t1, t2 \in Threads :
        /\ t1 # t2
        /\ th[t1].pc = "returned" /\ th[t2].pc = "returned"
        /\ "a" \in th[t1].offered /\ "a" \in th[t2].offered
        /\ th[t1].saved_count >= 1 /\ th[t2].duplicate_count >= 1
        /\ {"a", "A"} \subseteq QuoteTexts(rows)

\* C2: a save_quotes_to_db call that is given text quotes returns the number
\* of distinct texts of its batch that were not stored when it took the write
\* lock, the table grows by exactly that number, a uniqueness violation never
\* makes the call raise, and a batch whose texts are all stored returns 0.
C2_SavedCount ==
    \A t \in Threads :
        th[t].call = "save_quotes_to_db" =>
            /\ th[t].pc = "returned" =>
                  /\ th[t].ret = Cardinality(th[t].offered \ th[t].base)
                  /\ th[t].grew = th[t].ret
                  /\ th[t].saved_count + th[t].duplicate_count = th[t].len
            /\ th[t].pc = "raised" => th[t].err # "UNIQUE constraint failed"

\* One call inserted a record after skipping a duplicate earlier in its batch;
\* another call offered only stored texts and returned 0.
C2_Witness ==
    \E t1, t2 \in Threads :
        /\ t1 # t2
        /\ th[t1].pc = "returned" /\ th[t1].after /\ th[t1].ret >= 1
        /\ th[t2].pc = "returned" /\ th[t2].len = MaxBatch
        /\ th[t2].offered # {} /\ th[t2].offered \subseteq th[t2].base
        /\ th[t2].ret = 0

\* C3: a step of the store never changes or removes a persisted row: every
\* row keeps its position, id, quote and source.
C3_AppendOnly ==
    [][/\ Len(rows') >= Len(rows)
       /\ \A k \in DOMAIN rows : rows'[k] = rows[k]]_vars

\* A call offered a stored text under another source and was counted as a
\* duplicate, and the legacy table has been migrated with rows in it.
C3_Witness ==
    /\ dbMigrated >= 1
    /\ Len(rows) >= 2
    /\ \E t \in Threads : th[t].pc = "returned" /\ th[t].other

\* ------------------------------------------------------------------ source list
Hash == <<"#">>
ReasonHttp404 == <<"H", "T", "T", "P", " ", "4", "0", "4">>
Text404 == <<"4", "0", "4">>

\* load_sources(), given the text of SOURCES_FILE
RECURSIVE ActiveLines(_)
ActiveLines(lines) ==
    IF lines = <<>> THEN <<>>
    ELSE LET line == Strip(Head(lines))
         IN  (IF line # <<>> /\ ~StartsWith(line, Hash) THEN <<line>> ELSE <<>>)
             \o ActiveLines(Tail(lines))

load_sources(file) == IF file.exists THEN ActiveLines(Readlines(file.text)) ELSE <<>>

\* f"# [{reason}] {url}\n"
CommentLine(url, reason) == <<"#", " ", "[">> \o reason \o <<"]", " ">> \o url \o <<"\n">>

\* What the loop of comment_out_source writes for the lines it read.
RewriteDropping(lines, url, reason) ==
    Concat([k \in DOMAIN lines |->
               IF Strip(lines[k]) = url THEN <<>> ELSE lines[k]])
Rewrite(lines, url, reason) ==
    Concat([k \in DOMAIN lines |->
               IF Strip(lines[k]) = url THEN CommentLine(url, reason) ELSE lines[k]])

\* The buffered text reaches the file at offset 0 when it is flushed; bytes
\* another writer put beyond its end in the meantime stay.
WriteAtStart(old, new) ==
    IF Len(old) > Len(new) THEN new \o SubSeq(old, Len(new) + 1, Len(old)) ELSE new

\* ------------------------------------------------------------------ fetcher
\* str(e) of the HTTPError raised by response.raise_for_status()
HTTPErrorText(status, url) ==
    Digits(status) \o <<" ", "E", "r", "r", "o", "r", " ", "f", "o", "r", " ",
                         "u", "r", "l", ":", " ">> \o url

\* if "404" in str(e)
Is404(status, url) == Contains(HTTPErrorText(status, url), Text404)

Busy(t) == th[t].pc \notin {"idle", "returned", "raised"}
MayStart(t) ==
    /\ ~Busy(t)
    /\ parallel \/ t = MainThread

\* fetch_url returns `value` to whoever called it.
FetchReturn(f, value) ==
    IF f.call = "scrape_source" THEN AfterFetch([f EXCEPT !.result = value])
    ELSE [f EXCEPT !.result = value, !.pc = "returned"]

\* The end of either except clause.
AfterFailureSleepAlways(f) ==
    [f EXCEPT !.pc = "sleep"]
AfterFailure(f) ==
    IF f.attempt < f.retries - 1
    THEN [f EXCEPT !.pc = "sleep"]          \* time.sleep(RETRY_DELAY)
    ELSE FetchReturn(f, None)

\* fetch_url: entry, up to the loop.
FetchEnter(f, url, retries) ==
    LET g == [f EXCEPT !.url = url, !.retries = retries, !.attempt = 0,
                       !.gets = 0, !.sleeps = 0, !.oks = 0, !.n404 = 0,
                       !.last = None, !.cos_calls = 0, !.result = None,
                       !.lines = <<>>, !.reason = <<>>]
    IN  IF retries <= 0 THEN FetchReturn(g, None)     \* range(retries) is empty
        ELSE [g EXCEPT !.pc = "get"]

\* comment_out_source returns to whoever called it.
CosReturn(f) ==
    IF f.call = "comment_out_source" THEN [f EXCEPT !.pc = "returned"]
    ELSE AfterFailure(f)

FetchUrls == {U1, U2, U404}
Responses == {Ok(DocSingle), HttpError(404), HttpError(500), NetworkError}

FetchCall(t) ==
    /\ MayStart(t)
    /\ calls < MaxFetches
    /\ \E url \in FetchUrls, retries \in 0..MaxRetriesArg :
         th' = [th EXCEPT ![t] = FetchEnter([Frame0 EXCEPT !.call = "fetch_url"],
                                            url, retries)]
    /\ calls' = calls + 1
    /\ UNCHANGED <<storeVars, fileVars, envVars, toolVars, runVars>>

\* requests.get(...); response.raise_for_status(); return response.text
Get(t) ==
    /\ th[t].pc = "get"
    /\ \E resp \in web[th[t].url] :
         LET f == [th[t] EXCEPT !.gets = @ + 1, !.last = resp,
                                !.oks = @ + (IF resp.kind = "ok" THEN 1 ELSE 0),
                                !.n404 = @ + (IF resp.kind = "HTTPError" /\ resp.status = 404
                                              THEN 1 ELSE 0)]
         IN  th' = [th EXCEPT ![t] =
                CASE resp.kind = "ok" -> FetchReturn(f, resp.text)
                  [] resp.kind = "HTTPError" /\ Is404(resp.status, f.url) ->
                        \* comment_out_source(url, "HTTP 404")
                        [f EXCEPT !.pc = "cos_read", !.reason = ReasonHttp404,
                                  !.cos_calls = @ + 1]
                  [] OTHER -> AfterFailure(f)]
    /\ UNCHANGED <<storeVars, fileVars, envVars, toolVars, calls, runVars>>

Sleep(t) ==
    /\ th[t].pc = "sleep"
    /\ th' = [th EXCEPT ![t] = [@ EXCEPT !.pc = "get", !.sleeps = @ + 1,
                                         !.attempt = @ + 1]]
    /\ UNCHANGED <<storeVars, fileVars, envVars, toolVars, calls, runVars>>

\* A direct call of comment_out_source(url, reason).
CosUrls == FetchUrls \cup {<<>>, <<" ", "u", "1">>}
CosReasons == {ReasonHttp404, <<"x">>}

CosCall(t) ==
    /\ MayStart(t)
    /\ calls < MaxFetches
    /\ \E url \in CosUrls, reason \in CosReasons :
         th' = [th EXCEPT ![t] = [Frame0 EXCEPT !.call = "comment_out_source",
                                                !.pc = "cos_read",
                                                !.url = url, !.reason = reason]]
    /\ calls' = calls + 1
    /\ UNCHANGED <<storeVars, fileVars, envVars, toolVars, runVars>>

\* with open(SOURCES_FILE, "r") as f: lines = f.readlines()
CosRead(t) ==
    /\ th[t].pc = "cos_read"
    /\ th' = [th EXCEPT ![t] =
                IF sourcesFile.exists
                THEN [@ EXCEPT !.pc = "cos_open", !.lines = Readlines(sourcesFile.text),
                               !.before = sourcesFile.text]
                ELSE CosReturn(@)]      \* FileNotFoundError, caught and logged
    /\ UNCHANGED <<storeVars, fileVars, envVars, toolVars, calls, runVars>>

\* open(SOURCES_FILE, "w") truncates the file.
CosOpen(t) ==
    /\ th[t].pc = "cos_open"
    /\ sourcesFile' = [exists |-> TRUE, text |-> <<>>]
    /\ th' = [th EXCEPT ![t] = [@ EXCEPT !.pc = "cos_flush"]]
    /\ UNCHANGED <<storeVars, sources0, envVars, toolVars, calls, runVars>>

\* The loop fills the buffer; f.flush() and the close write it out.
CosFlush(t) ==
    /\ th[t].pc = "cos_flush"
    /\ sourcesFile' = [exists |-> TRUE,
                       text |-> WriteAtStart(sourcesFile.text,
                                   Rewrite(th[t].lines, th[t].url, th[t].reason))]
    /\ th' = [th EXCEPT ![t] = CosReturn(@)]
    /\ UNCHANGED <<storeVars, sources0, envVars, toolVars, calls, runVars>>

\* Source lists: a line with blanks around the URL, a commented line, a last
\* line without newline; a repeated URL and a blank line.
SourceTexts ==
    { U1 \o <<"\n", " ">> \o U404 \o <<" ", "\n", "#", " ">> \o U2 \o <<"\n">> \o U2,
      U1 \o <<"\n">> \o U1 \o <<"\n", "\n">> \o U2 \o <<"\n">> }

InitFetch ==
    /\ NoRun
    /\ NoTools
    /\ dbSchema = "none" /\ dbIndex = FALSE /\ rows = <<>> /\ dbMigrated = 0 /\ dbLock = 0
    /\ th = [t \in Threads |-> Frame0]
    /\ calls = 0
    /\ \E exists \in BOOLEAN, text \in SourceTexts :
         /\ sourcesFile = [exists |-> exists, text |-> IF exists THEN text ELSE <<>>]
         /\ sources0 = sourcesFile.text
    /\ web = [u \in FetchUrls |-> Responses]

NextFetch ==
    \/ \E t \in Threads : FetchCall(t)
    \/ \E t \in Threads : Get(t)
    \/ \E t \in Threads : Sleep(t)
    \/ \E t \in Threads : CosCall(t)
    \/ \E t \in Threads : CosRead(t)
    \/ \E t \in Threads : CosOpen(t)
    \/ \E t \in Threads : CosFlush(t)

\* Calls one after the other, by the main thread.
InitFetchSeq == InitFetch /\ parallel = FALSE
SpecFetch == InitFetchSeq /\ [][NextFetch]_vars

\* fetch_url called by two threads at a time, as under the worker pool.
InitFetchPar == InitFetch /\ parallel = TRUE
NextFetchPar ==
    \/ \E t \in Threads : FetchCall(t)
    \/ \E t \in Threads : Get(t)
    \/ \E t \in Threads : Sleep(t)
    \/ \E t \in Threads : CosRead(t)
    \/ \E t \in Threads : CosOpen(t)
    \/ \E t \in Threads : CosFlush(t)
SpecFetchPar == InitFetchPar /\ [][NextFetchPar]_vars

\* ------------------------------------------------------------------ fetcher: properties
Range(q) == {q[k] : k \in DOMAIN q}

\* C4: fetch_url(url, retries = n) with n >= 1 makes at most n GET attempts
\* and never raises; it sleeps exactly once before every attempt but the
\* first; the first successful attempt ends the call with that response's
\* body, with no further attempt or sleep; when every attempt fails there are
\* exactly n attempts and n - 1 sleeps, and the call returns None.
C4_BoundedRetries ==
    \A t \in Threads :
        (th[t].call = "fetch_url" /\ th[t].retries >= 1) =>
            /\ th[t].gets <= th[t].retries
            /\ th[t].pc # "raised"
            /\ th[t].pc = "get" => th[t].sleeps = th[t].gets /\ th[t].oks = 0
            /\ th[t].pc \in {"sleep", "cos_read", "cos_open", "cos_flush"} =>
                  th[t].sleeps = th[t].gets - 1 /\ th[t].oks = 0
            /\ th[t].pc = "returned" =>
                  /\ th[t].sleeps = th[t].gets - 1
                  /\ th[t].oks <= 1
                  /\ th[t].oks = 1 =>
                        th[t].last.kind = "ok" /\ th[t].result = th[t].last.text
                  /\ th[t].oks = 0 =>
                        th[t].result = None /\ th[t].gets = th[t].retries

\* A call with the largest retries argument whose attempts all failed, one of
\* them by HTTP 404, has returned None.
C4_Witness ==
    \E t \in Threads :
        /\ th[t].call = "fetch_url" /\ th[t].pc = "returned"
        /\ th[t].retries = MaxRetriesArg /\ th[t].gets = MaxRetriesArg
        /\ th[t].sleeps = MaxRetriesArg - 1
        /\ th[t].n404 >= 1 /\ th[t].n404 < th[t].gets
        /\ th[t].result = None

\* C5: during fetch_url, comment_out_source(url, "HTTP 404") is invoked if and
\* only if an attempt failed with an HTTP 404 response, whatever the url.
C5_CommentOutIff404 ==
    \A t \in Threads :
        th[t].call = "fetch_url" => (th[t].cos_calls > 0 <=> th[t].n404 > 0)

\* C6: once a fetch of url has failed with HTTP 404 and returned, load_sources()
\* does not return url.
C6_DeadSourceNotLoaded ==
    \A t \in Threads :
        (th[t].call = "fetch_url" /\ th[t].pc = "returned" /\ th[t].n404 > 0) =>
            th[t].url \notin Range(load_sources(sourcesFile))

\* C7: the call comment_out_source(url, reason) that completes rewrites the
\* source list line by line: a line whose trimmed content equals url becomes
\* "# [reason] url", every other line is kept, in the same order and number;
\* and between calls the list has the lines it started with, each unchanged
\* or commented out with its trimmed content kept.
C7_RewriteStep ==
    \A t \in Threads :
        (th[t].pc = "cos_flush" /\ th'[t].pc # "cos_flush") =>
            LET old == Readlines(th[t].before)
                new == Readlines(sourcesFile'.text)
            IN  /\ Len(new) = Len(old)
                /\ \A k \in DOMAIN old :
                      new[k] = IF Strip(old[k]) = th[t].url
                               THEN CommentLine(th[t].url, th[t].reason)
                               ELSE old[k]

C7_NoLineRemoved ==
    (\A t \in Threads : th[t].pc \notin {"cos_open", "cos_flush"}) =>
        LET old == Readlines(sources0)
            new == Readlines(sourcesFile.text)
        IN  /\ Len(new) = Len(old)
            /\ \A k \in DOMAIN old :
                  \/ new[k] = old[k]
                  \/ /\ StartsWith(new[k], Hash)
                     /\ EndsWith(new[k], Strip(old[k]) \o <<"\n">>)

C7_CommentOutInPlace == [][C7_RewriteStep]_vars /\ []C7_NoLineRemoved

\* After a direct call with reason "x", the line of U1 reads "# [x] u1" and
\* another active line is untouched.
C7_Witness ==
    /\ \A t \in Threads : ~Busy(t)
    /\ LET old == Readlines(sources0)
           new == Readlines(sourcesFile.text)
       IN  /\ Len(new) = Len(old)
           /\ \E k \in DOMAIN new :
                 new[k] = CommentLine(U1, <<"x">>) /\ Strip(old[k]) = U1
           /\ \E k \in DOMAIN new :
                 new[k] = old[k] /\ Range(load_sources(sourcesFile)) # {}

\* C28: when two worker threads have each fetched a different URL, met HTTP
\* 404 and so called comment_out_source, possibly at the same time, the source
\* list afterwards has every line it started with: the lines of the two URLs
\* commented out, every other line unchanged.
C28_ConcurrentCommentOutKeepsAll ==
    (/\ calls = Cardinality(Threads)
     /\ \A t \in Threads :
           th[t].call = "fetch_url" /\ th[t].pc = "returned" /\ th[t].n404 > 0
     /\ \A t, o \in Threads : t # o => th[t].url # th[o].url) =>
        LET old == Readlines(sources0)
            new == Readlines(sourcesFile.text)
        IN  /\ Len(new) = Len(old)
            /\ \A k \in DOMAIN old :
                  new[k] = IF \E t \in Threads : Strip(old[k]) = th[t].url
                           THEN CommentLine(Strip(old[k]), ReasonHttp404)
                           ELSE old[k]

\* ------------------------------------------------------------------ CSV output
\* file_exists = Path(csv_path).exists()
CsvExists(t) ==
    /\ th[t].pc = "csv_exists"
    /\ th' = [th EXCEPT ![t] = [@ EXCEPT !.pc = "csv_open",
                                         !.file_exists = csvFile.exists]]
    /\ UNCHANGED <<storeVars, fileVars, envVars, toolVars, calls, runVars>>

\* open(csv_path, "a") creates the file when it is missing.
CsvOpen(t) ==
    /\ th[t].pc = "csv_open"
    /\ csvFile' = [csvFile EXCEPT !.exists = TRUE]
    /\ th' = [th EXCEPT ![t] = [@ EXCEPT !.pc = "csv_write"]]
    /\ UNCHANGED <<storeVars, fileVars, envVars, toolVars, calls, orch, unit>>

CsvRows(quotes) ==
    [k \in DOMAIN quotes |->
        [kind |-> "row", source |-> quotes[k].source, quote |-> quotes[k].quote]]

\* save_quotes_to_csv:632, `if not file_exists:`.
NeedsHeaderAlways(file_exists) == TRUE
NeedsHeader(file_exists) == ~file_exists

\* The header, if the file was new, and one row per record are buffered and
\* appended when the file is closed; the call returns the number of rows.
CsvWrite(t) ==
    /\ th[t].pc = "csv_write"
    /\ csvFile' = [csvFile EXCEPT !.rows =
                      @ \o (IF NeedsHeader(th[t].file_exists) THEN <<[kind |-> "header"]>>
                            ELSE <<>>)
                        \o CsvRows(th[t].quotes)]
    /\ th' = [th EXCEPT ![t] = SaveReturn(@, Len(th[t].quotes))]
    /\ UNCHANGED <<storeVars, fileVars, envVars, toolVars, calls, orch, unit>>

\* ------------------------------------------------------------------ orchestrator
U0 == [state |-> "new", outcome |-> "none", ret |-> 0, runs |-> 0, gets |-> 0]

\* except Exception as e: logging.error(...)
CaughtNone(outcome) == FALSE
Caught(outcome) == outcome = "raised"

\* What the caller of one unit does with its outcome.
Collected(o, outcome, ret) ==
    IF outcome = "returned" THEN [o EXCEPT !.total_saved = @ + ret]
    ELSE IF Caught(outcome) THEN o
    ELSE [o EXCEPT !.pc = "raised"]

\* scrape_all_sources(sources, db_path, csv_path, formats, max_workers): up to
\* the loop, or up to the submission of every source to the pool.
RunCall ==
    /\ orch.pc = "start"
    /\ IF orch.max_workers = 1
       THEN /\ orch' = [orch EXCEPT !.pc = "loop"]
            /\ UNCHANGED unit
       ELSE /\ orch' = [orch EXCEPT !.pc = "collect"]
            /\ unit' = [k \in DOMAIN unit |-> [unit[k] EXCEPT !.state = "queued"]]
    /\ UNCHANGED <<storeVars, fileVars, envVars, toolVars, calls, th, csvFile>>

\* scrape_source(source, ...) begins on thread t for entry k.
StartUnit(t, k) ==
    /\ th' = [th EXCEPT ![t] =
                FetchEnter([Frame0 EXCEPT !.call = "scrape_source", !.task = k],
                           orch.sources[k], MAX_RETRIES)]
    /\ unit' = [unit EXCEPT ![k] = [@ EXCEPT !.state = "running", !.runs = @ + 1]]

\* for source in sources: the loop runs in the calling thread.
SeqReadyAny(o, t, k) == th[t].pc = "idle"
SeqReady(o, t, k) == t = MainThread /\ k = o.k /\ th[t].pc = "idle"

SeqStart(t) ==
    /\ orch.pc = "loop"
    /\ \E k \in DOMAIN unit :
         /\ unit[k].state = "new"
         /\ SeqReady(orch, t, k)
         /\ StartUnit(t, k)
    /\ orch' = [orch EXCEPT !.overlapped = @ \/ \E j \in DOMAIN unit :
                                                  unit[j].state = "running"]
    /\ UNCHANGED <<storeVars, fileVars, envVars, toolVars, calls, csvFile>>

\* total_saved += saved, or the except clause; then the next entry.
SeqCollect(t) ==
    /\ orch.pc = "loop"
    /\ th[t].call = "scrape_source"
    /\ th[t].pc \in {"returned", "raised"}
    /\ orch' = LET o == Collected(orch, th[t].pc, th[t].ret)
               IN  IF o.pc = "raised" THEN o ELSE [o EXCEPT !.k = @ + 1]
    /\ unit' = [unit EXCEPT ![th[t].task] =
                   [@ EXCEPT !.state = "collected", !.outcome = th[t].pc,
                             !.ret = th[t].ret, !.gets = th[t].gets]]
    /\ th' = [th EXCEPT ![t] = Frame0]
    /\ UNCHANGED <<storeVars, fileVars, envVars, toolVars, calls, csvFile>>

\* A free worker of the pool takes the oldest queued task.
WorkerTake(t) ==
    /\ orch.pc = "collect"
    /\ th[t].pc = "idle"
    /\ \E k \in DOMAIN unit :
         /\ unit[k].state = "queued"
         /\ \A j \in 1..(k - 1) : unit[j].state # "queued"
         /\ StartUnit(t, k)
    /\ orch' = [orch EXCEPT !.overlapped = @ \/ \E j \in DOMAIN unit :
                                                  unit[j].state = "running"]
    /\ UNCHANGED <<storeVars, fileVars, envVars, toolVars, calls, csvFile>>

\* The worker stores the task's result or exception in its future.
WorkerDone(t) ==
    /\ orch.pc = "collect"
    /\ th[t].call = "scrape_source"
    /\ th[t].pc \in {"returned", "raised"}
    /\ unit' = [unit EXCEPT ![th[t].task] =
                   [@ EXCEPT !.state = "done", !.outcome = th[t].pc, !.ret = th[t].ret,
                             !.gets = th[t].gets]]
    /\ th' = [th EXCEPT ![t] = Frame0]
    /\ UNCHANGED <<storeVars, fileVars, envVars, toolVars, calls, csvFile, orch>>

\* for future in as_completed(future_to_source): any completed future.
Collect(k) ==
    /\ orch.pc = "collect"
    /\ unit[k].state = "done"
    /\ orch' = [Collected(orch, unit[k].outcome, unit[k].ret) EXCEPT
                  !.inverted = @ \/ \E j \in 1..(k - 1) : unit[j].state # "collected"]
    /\ unit' = [unit EXCEPT ![k] = [@ EXCEPT !.state = "collected"]]
    /\ UNCHANGED <<storeVars, fileVars, envVars, toolVars, calls, csvFile, th>>

\* return total_saved
RunReturn ==
    /\ \/ orch.pc = "loop" /\ orch.k > Len(orch.sources)
       \/ orch.pc = "collect" /\ \A k \in DOMAIN unit : unit[k].state = "collected"
    /\ orch' = [orch EXCEPT !.pc = "done"]
    /\ UNCHANGED <<storeVars, fileVars, envVars, toolVars, calls, csvFile, th, unit>>

\* The sources and what each of them answers, fixed for a run.
RunUrls == {U1, U2, U3, U404}
RunWebs ==
    { [u \in RunUrls |->
          CASE u = U1 -> {Ok(DocList)}
            [] u = U2 -> {Ok(DocSingle)}
            [] u = U3 -> {Ok(DocNull)}
            [] OTHER -> {HttpError(404)}],
      [u \in RunUrls |->
          CASE u = U1 -> {Ok(DocHtml)}
            [] u = U2 -> {Ok(EmptyText)}
            [] u = U3 -> {NetworkError}
            [] OTHER -> {Ok(DocSingle)}] }
FormatLists == {<<"sqlite">>, <<"csv", "sqlite">>, <<"xml", "csv">>}
SourceLists == UNION {[1..n -> RunUrls] : n \in 0..MaxSources}

InitRun ==
    /\ NoTools
    /\ dbSchema = "current" /\ dbIndex = TRUE /\ dbMigrated = 0 /\ dbLock = 0
    /\ rows \in InitialRows
    /\ th = [t \in Threads |-> Frame0]
    /\ calls = 0
    /\ sourcesFile = [exists |-> TRUE,
                      text |-> U1 \o <<"\n">> \o U404 \o <<"\n">> \o U2 \o <<"\n">>]
    /\ sources0 = sourcesFile.text
    /\ web \in RunWebs
    /\ csvFile = [exists |-> FALSE, rows |-> <<>>]
    /\ \E sources \in SourceLists, formats \in FormatLists,
          max_workers \in {1, Cardinality(Threads)} :
         /\ orch = [pc |-> "start", sources |-> sources, formats |-> formats,
                    max_workers |-> max_workers, k |-> 1, total_saved |-> 0,
                    rows0 |-> rows, overlapped |-> FALSE, inverted |-> FALSE]
         /\ unit = [k \in 1..Len(sources) |-> U0]
         /\ parallel = (max_workers # 1)

NextRun ==
    \/ RunCall
    \/ \E t \in Threads : SeqStart(t)
    \/ \E t \in Threads : SeqCollect(t)
    \/ \E t \in Threads : WorkerTake(t)
    \/ \E t \in Threads : WorkerDone(t)
    \/ \E k \in DOMAIN unit : Collect(k)
    \/ RunReturn
    \/ \E t \in Threads : Get(t)
    \/ \E t \in Threads : Sleep(t)
    \/ \E t \in Threads : CosRead(t)
    \/ \E t \in Threads : CosOpen(t)
    \/ \E t \in Threads : CosFlush(t)
    \/ \E t \in Threads : SaveInsert(t)
    \/ \E t \in Threads : SaveCommit(t)
    \/ \E t \in Threads : CsvExists(t)
    \/ \E t \in Threads : CsvOpen(t)
    \/ \E t \in Threads : CsvWrite(t)

SpecRun == InitRun /\ [][NextRun]_vars

\* ------------------------------------------------------------------ orchestrator: properties
\* What entry k added to the total: its saved count if it completed normally.
Contribution(k) == IF unit[k].outcome = "returned" THEN unit[k].ret ELSE 0

\* C8: scrape_all_sources never raises and never runs an entry twice; when it
\* returns, every entry of sources has had exactly one scrape_source unit,
\* whether or not another unit raised, and the value returned is the sum of
\* the saved counts of the units that completed normally, a unit that raised
\* adding 0; in the sequential and in the worker-pool mode.
C8_SumOfCompletedUnits ==
    /\ orch.pc # "raised"
    /\ \A k \in DOMAIN unit : unit[k].runs <= 1
    /\ orch.pc = "done" =>
          /\ DOMAIN unit = DOMAIN orch.sources
          /\ \A k \in DOMAIN unit :
                /\ unit[k].runs = 1
                /\ unit[k].state = "collected"
                /\ unit[k].outcome \in {"returned", "raised"}
          /\ orch.total_saved = SeqSum([k \in DOMAIN unit |-> Contribution(k)])

\* A sequential run has returned a positive total although the save of an
\* earlier entry raised.
C8_Witness ==
    /\ orch.pc = "done"
    /\ orch.max_workers = 1
    /\ orch.total_saved > 0
    /\ \E j, k \in DOMAIN unit :
         /\ j < k
         /\ unit[j].outcome = "raised"
         /\ unit[k].outcome = "returned" /\ unit[k].ret > 0

\* C30: when save_quotes_to_db fails part-way with an error other than a
\* uniqueness violation, the failing step leaves the table as it was and keeps
\* nothing of the batch, the error propagates out of scrape_source, nothing of
\* that source is in the table afterwards, and scrape_all_sources goes on and
\* counts the source as 0.
C30_FailingStep ==
    \A t \in Threads :
        (th[t].pc = "insert" /\ th'[t].pc = "raised") =>
            /\ rows' = rows
            /\ th'[t].txn = <<>>
            /\ th'[t].call = "scrape_source"
            /\ th'[t].err \notin {"ok", "UNIQUE constraint failed"}

C30_NothingOfFailedBatch ==
    /\ \A t \in Threads :
          (th[t].call = "scrape_source" /\ th[t].pc = "raised") =>
              \A k \in DOMAIN rows : rows[k].source # th[t].url
    /\ \A k \in DOMAIN unit :
          unit[k].outcome = "raised" =>
              \A j \in DOMAIN rows : rows[j].source # orch.sources[k]
    /\ orch.pc # "raised"
    /\ orch.pc = "done" =>
          orch.total_saved =
              SeqSum([k \in DOMAIN unit |->
                         IF unit[k].outcome = "raised" THEN 0 ELSE unit[k].ret])

C30_FailedSaveRollsBack == [][C30_FailingStep]_vars /\ []C30_NothingOfFailedBatch

\* A batch whose first record was inserted and whose second, a null quote,
\* was refused has failed; the run went on and returned.
C30_Witness ==
    /\ orch.pc = "done"
    /\ \E k \in DOMAIN unit :
         /\ unit[k].outcome = "raised"
         /\ orch.sources[k] = U3
         /\ extract_quotes(DocNull, U3)[1].quote = JStr("b")
         /\ web[U3] = {Ok(DocNull)}
         /\ "b" \notin QuoteTexts(rows)
    /\ orch.total_saved > 0

\* The sequential run, computed from the arguments: the records of a source,
ResponseOf(url) == CHOOSE resp \in web[url] : TRUE
UnitQuotes(url) ==
    IF ResponseOf(url).kind = "ok" /\ ResponseOf(url).text # EmptyText
    THEN extract_quotes(ResponseOf(url).text, url)
    ELSE <<>>

TextsOf(quotes) ==
    {quotes[k].quote.s : k \in {j \in DOMAIN quotes : quotes[j].quote.t = "str"}}

\* what the formats of one unit save on top of the stored texts,
RECURSIVE SequentialFormats(_, _, _)
SequentialFormats(quotes, formats, stored) ==
    IF formats = <<>> THEN [raised |-> FALSE, saved |-> 0, stored |-> stored]
    ELSE IF Head(formats) = "csv"
    THEN [SequentialFormats(quotes, Tail(formats), stored) EXCEPT
            !.saved = @ + Len(quotes)]
    ELSE IF Head(formats) = "sqlite"
    THEN IF \E k \in DOMAIN quotes : quotes[k].quote.t # "str"
         THEN [raised |-> TRUE, saved |-> 0, stored |-> stored]
         ELSE [SequentialFormats(quotes, Tail(formats), stored \cup TextsOf(quotes))
                  EXCEPT !.saved = @ + Cardinality(TextsOf(quotes) \ stored)]
    ELSE SequentialFormats(quotes, Tail(formats), stored)

\* and the total of the units one after the other, in list order.
RECURSIVE SequentialTotal(_, _)
SequentialTotal(sources, stored) ==
    IF sources = <<>> THEN 0
    ELSE LET quotes == UnitQuotes(Head(sources))
             r == SequentialFormats(quotes, orch.formats, stored)
         IN  IF quotes = <<>> THEN SequentialTotal(Tail(sources), stored)
             ELSE (IF r.raised THEN 0 ELSE r.saved)
                  + SequentialTotal(Tail(sources), r.stored)

C10_StrictlySequential ==
    orch.max_workers = 1 =>
        /\ Cardinality({k \in DOMAIN unit : unit[k].state = "running"}) <= 1
        /\ Cardinality({t \in Threads : th[t].pc # "idle"}) <= 1
        /\ \A k \in DOMAIN unit :
              unit[k].state # "new" =>
                  \A j \in 1..(k - 1) :
                      unit[j].state = "collected" /\ unit[j].outcome \in {"returned", "raised"}

\* In a sequential run the second entry is being fetched after the first
\* entry's unit raised.
C10_Witness ==
    /\ orch.max_workers = 1
    /\ \E k \in DOMAIN unit :
         /\ k > 1
         /\ unit[k].state = "running"
         /\ unit[k - 1].state = "collected" /\ unit[k - 1].outcome = "raised"
         /\ \E t \in Threads : th[t].task = k /\ th[t].pc = "sleep" /\ th[t].gets = 1

\* ------------------------------------------------------------------ main
H1 == <<"h", ":", "/", "/", "a">>
H2 == <<"h", ":", "/", "/", "b">>
NoHost == <<"h", ":", "a">>

Letters == {"h", "a", "b", "u", "p"}
SchemeChars == Letters \cup {DigitChars[k] : k \in DOMAIN DigitChars} \cup {"+", "-", "."}

\* str.find: the first position of c in s, 0 when there is none.
Find(s, c) ==
    IF \E k \in DOMAIN s : s[k] = c
    THEN CHOOSE k \in DOMAIN s : s[k] = c /\ \A j \in 1..(k - 1) : s[j] # c
    ELSE 0

\* urlparse(source): the scheme is what precedes the first ":" when that
\* begins with a letter and holds scheme characters only,
HasScheme(url) ==
    /\ Find(url, ":") > 1
    /\ url[1] \in Letters
    /\ \A j \in 1..(Find(url, ":") - 1) : url[j] \in SchemeChars
UrlScheme(url) == IF HasScheme(url) THEN SubSeq(url, 1, Find(url, ":") - 1) ELSE <<>>
UrlRest(url) == IF HasScheme(url) THEN SubSeq(url, Find(url, ":") + 1, Len(url)) ELSE url

\* and the netloc is what follows "//", up to the first "/", "?" or "#".
UrlNetloc(url) ==
    LET rest == UrlRest(url)
        after == SubSeq(rest, 3, Len(rest))
        stops == {k \in DOMAIN after : after[k] \in {"/", "?", "#"}}
    IN  IF Len(rest) >= 2 /\ rest[1] = "/" /\ rest[2] = "/"
        THEN IF stops = {} THEN after
             ELSE SubSeq(after, 1, (CHOOSE k \in stops : \A j \in stops : k <= j) - 1)
        ELSE <<>>

\* all([result.scheme, result.netloc])
ValidUrl(url) == UrlScheme(url) # <<>> /\ UrlNetloc(url) # <<>>
validate_sources(sources) == SelectSeq(sources, ValidUrl)

\* The source column of the rows of a table or a CSV file, empty ones left out.
SourcesOf(table) == {table[k].source : k \in DOMAIN table} \ {<<>>}
CsvSources(file) ==
    IF file.exists
    THEN {file.rows[k].source : k \in {j \in DOMAIN file.rows : file.rows[j].kind = "row"}}
         \ {<<>>}
    ELSE {}

\* The files main() writes to: with --format both always the default pair,
\* otherwise the database or the CSV file named by --output.
WritesDefaultDb(args) == args.format = "both" \/ (args.format = "sqlite" /\ args.output = "default")
WritesDefaultCsv(args) == args.format = "both" \/ (args.format = "csv" /\ args.output = "default")

\* get_scraped_sources() as main() calls it, without arguments: it reads
\* DEFAULT_OUTPUT_CSV and DEFAULT_OUTPUT_DB.  m.elsewhere holds the sources in
\* either default file when this run writes to another path.
get_scraped_sources(m) ==
    (IF WritesDefaultCsv(m.args) THEN CsvSources(csvFile) ELSE m.elsewhere.csv)
    \cup (IF WritesDefaultDb(m.args)
          THEN (IF dbSchema = "none" THEN {} ELSE SourcesOf(rows))
          ELSE m.elsewhere.db)

\* The scraped sources of the files this run writes to.
DestinationSources(args) ==
    (IF args.format \in {"both", "csv"} THEN CsvSources(csvFile) ELSE {})
    \cup (IF args.format \in {"both", "sqlite"} /\ dbSchema # "none"
          THEN SourcesOf(rows) ELSE {})

\* if not args.refresh and not args.sources
Filters(args) == ~args.refresh /\ args.sources = <<>>

\* main(), up to the validated sources.
MainSources(m) ==
    LET sources == IF m.args.sources # <<>>
                   THEN m.args.sources ELSE load_sources(sourcesFile)
        scraped_sources == get_scraped_sources(m)
        filtered == IF Filters(m.args) /\ scraped_sources # {}
                    THEN SelectSeq(sources, LAMBDA x : x \notin scraped_sources)
                    ELSE sources
    IN  validate_sources(filtered)

\* if args.dry_run
DryRunNever(args) == FALSE
DryRun(args) == args.dry_run

MainFormats(args) ==
    CASE args.format = "both" -> <<"sqlite", "csv">>
      [] args.format = "sqlite" -> <<"sqlite">>
      [] OTHER -> <<"csv">>

\* return 0 if total_saved > 0 else 1
ExitCodeNonNegative(total_saved) == IF total_saved >= 0 THEN 0 ELSE 1
ExitCode(total_saved) == IF total_saved > 0 THEN 0 ELSE 1

MainStart ==
    /\ mainv.pc = "start"
    /\ LET sources == MainSources(mainv)
           m == [mainv EXCEPT !.sources = sources]
       IN  mainv' = IF sources = <<>> THEN [m EXCEPT !.pc = "returned", !.code = 1]
                    ELSE IF DryRun(m.args) THEN [m EXCEPT !.pc = "returned", !.code = 0]
                    ELSE IF "sqlite" \in {MainFormats(m.args)[k] :
                                            k \in DOMAIN MainFormats(m.args)}
                    THEN [m EXCEPT !.pc = "create"]
                    ELSE [m EXCEPT !.pc = "run"]
    /\ UNCHANGED <<storeVars, fileVars, web, parallel, th, calls, runVars, created, gen, out>>

\* create_database(db_path)
MainCreate ==
    /\ mainv.pc = "create"
    /\ dbLock = 0
    /\ SetStore(create_database(Store))
    /\ mainv' = [mainv EXCEPT !.pc = IF create_database(Store).raised
                                     THEN "raised" ELSE "run"]
    /\ UNCHANGED <<dbLock, fileVars, web, parallel, th, calls, runVars, created, gen, out>>

\* total_saved = scrape_all_sources(sources, ..., max_workers=args.threads)
MainRun ==
    /\ mainv.pc = "run"
    /\ mainv' = [mainv EXCEPT !.pc = "running"]
    /\ orch' = [pc |-> "start", sources |-> mainv.sources,
                formats |-> MainFormats(mainv.args), max_workers |-> mainv.args.threads,
                k |-> 1, total_saved |-> 0, rows0 |-> rows, overlapped |-> FALSE,
                inverted |-> FALSE]
    /\ unit' = [k \in DOMAIN mainv.sources |-> U0]
    /\ UNCHANGED <<storeVars, fileVars, web, parallel, th, calls, csvFile, created, gen, out>>

MainReturn ==
    /\ mainv.pc = "running"
    /\ orch.pc = "done"
    /\ mainv' = [mainv EXCEPT !.pc = "returned", !.code = ExitCode(orch.total_saved)]
    /\ UNCHANGED <<storeVars, fileVars, web, parallel, th, calls, runVars, created, gen, out>>

MainUrls == {H1, H2, NoHost, U1}
MainWebs ==
    { [u \in MainUrls |-> IF u = H1 THEN {Ok(DocList)} ELSE {Ok(DocSingle)}],
      [u \in MainUrls |-> IF u = H1 THEN {Ok(DocNull)} ELSE {HttpError(404)}] }
\* --sources: the list given, <<>> when the option is absent (None).
MainSourceArgs == {<<>>, <<H1>>, <<H2, NoHost>>}
MainStores ==
    { [schema |-> "none", rows |-> <<>>],
      [schema |-> "current", rows |-> <<>>],
      [schema |-> "current", rows |-> <<[id |-> 1, quote |-> "a", source |-> H1]>>] }
MainCsvFiles ==
    { [exists |-> FALSE, rows |-> <<>>],
      [exists |-> TRUE,
       rows |-> <<[kind |-> "header"], [kind |-> "row", source |-> H2, quote |-> JStr("a")]>>] }
Elsewhere == {[db |-> {}, csv |-> {}], [db |-> {H2}, csv |-> {}]}

InitMain ==
    /\ \E db \in MainStores :
         /\ dbSchema = db.schema /\ rows = db.rows /\ dbIndex = (db.schema # "none")
    /\ dbMigrated = 0 /\ dbLock = 0
    /\ th = [t \in Threads |-> Frame0]
    /\ calls = 0
    /\ sourcesFile = [exists |-> TRUE,
                      text |-> H1 \o <<"\n">> \o U1 \o <<"\n">> \o H2 \o <<"\n">>]
    /\ sources0 = sourcesFile.text
    /\ web \in MainWebs
    /\ csvFile \in MainCsvFiles
    /\ orch = [pc |-> "none", sources |-> <<>>, formats |-> <<>>, max_workers |-> 0,
               k |-> 0, total_saved |-> 0, rows0 |-> <<>>, overlapped |-> FALSE,
               inverted |-> FALSE]
    /\ unit = <<>>
    /\ \E sources \in MainSourceArgs, output \in {"default", "custom"},
          format \in {"both", "sqlite", "csv"}, dry_run \in BOOLEAN,
          threads \in {1, Cardinality(Threads)}, refresh \in BOOLEAN,
          elsewhere \in Elsewhere :
         /\ mainv = [pc |-> "start",
                     args |-> [sources |-> sources, output |-> output, format |-> format,
                               dry_run |-> dry_run, threads |-> threads,
                               refresh |-> refresh],
                     elsewhere |-> elsewhere, sources |-> <<>>, code |-> 0,
                     \* the start of the run, read by the properties only
                     store0 |-> Store, csv0 |-> csvFile,
                     dest0 |-> DestinationSources([format |-> format])]
         /\ parallel = (threads # 1)
    /\ created = [calls |-> 0, raised |-> FALSE, first |-> <<>>, impl |-> "scraper"]
    /\ gen = [pc |-> "none"]
    /\ out = [pc |-> "none"]

NextMain ==
    \/ MainStart
    \/ MainCreate
    \/ MainRun
    \/ MainReturn
    \/ NextRun

SpecMain == InitMain /\ [][NextMain]_vars

\* ------------------------------------------------------------------ main: properties
\* The URLs fetched so far in the run: of the running and of the finished units.
Fetched ==
    {th[t].url : t \in {x \in Threads : th[x].call = "scrape_source" /\ th[x].gets > 0}}
    \cup {orch.sources[k] : k \in {j \in DOMAIN unit : unit[j].gets > 0}}

\* The sources main() starts from, and those of them that are valid.
Candidates ==
    IF mainv.args.sources # <<>> THEN mainv.args.sources
    ELSE ActiveLines(Readlines(sources0))

\* C11: in a run without --refresh no source that was in the scraped-sources
\* set of the files the run writes to is fetched; in a run with --refresh
\* that is not a dry run, every valid source has been fetched when main returns.
C11_SkipsScrapedUnlessRefresh ==
    /\ ~mainv.args.refresh => Fetched \cap mainv.dest0 = {}
    /\ (mainv.args.refresh /\ ~mainv.args.dry_run /\ mainv.pc = "returned") =>
          Range(validate_sources(Candidates)) \subseteq Fetched

\* What the run has added to the files it writes to.
SavedRows == Len(rows) - Len(mainv.store0.rows)
SavedCsv ==
    Cardinality({k \in DOMAIN csvFile.rows : csvFile.rows[k].kind = "row"})
    - Cardinality({k \in DOMAIN mainv.csv0.rows : mainv.csv0.rows[k].kind = "row"})

\* C12 as stated: main returns 0 if and only if at least one quote was saved
\* during the run, and 1 in every other case.
C12_ExitZeroIffSaved ==
    mainv.pc = "returned" =>
        /\ mainv.code \in {0, 1}
        /\ mainv.code = 0 <=> SavedRows + SavedCsv > 0

\* C12, amended: main returns 0 if and only if at least one quote was saved
\* during the run or the run is a dry run with at least one valid source,
\* and 1 in every other case.
C12_ExitZeroIffSavedOrDryRun ==
    mainv.pc = "returned" =>
        /\ mainv.code \in {0, 1}
        /\ mainv.code = 0 <=>
              \/ SavedRows + SavedCsv > 0
              \/ mainv.args.dry_run /\ mainv.sources # <<>>

\* A run that saved nothing returned 1 after fetching, and its store holds a
\* row from before.
C12_Witness ==
    /\ mainv.pc = "returned"
    /\ ~mainv.args.dry_run
    /\ mainv.code = 1
    /\ Fetched # {}
    /\ SavedRows + SavedCsv = 0
    /\ rows # <<>>

\* C13: in a dry run no source is fetched, no worker starts, and the
\* database, the CSV file and the source list stay as they were.
C13_DryRunTouchesNothing ==
    mainv.args.dry_run =>
        /\ Fetched = {}
        /\ \A t \in Threads : th[t] = Frame0
        /\ orch.pc = "none"
        /\ [Store EXCEPT !.raised = FALSE] = mainv.store0
        /\ csvFile = mainv.csv0
        /\ sourcesFile = [exists |-> TRUE, text |-> sources0]

\* A dry run over the default source list has returned 0 with two valid
\* sources, on a store without table and without CSV file.
C13_Witness ==
    /\ mainv.args.dry_run
    /\ mainv.pc = "returned" /\ mainv.code = 0
    /\ Len(mainv.sources) = 2
    /\ dbSchema = "none" /\ ~csvFile.exists

\* ------------------------------------------------------------------ schema
\* create_database(db_path), called again and again by one process that also
\* saves batches in between. The process calls either scraper.scraper's
\* function or the one the package exports, which is scraper.loader's.
CreateDatabaseCall ==
    /\ created.calls < MaxCreates
    /\ dbLock = 0
    /\ LET db == IF created.impl = "loader" THEN loader_create_database(Store)
                 ELSE create_database(Store)
       IN  /\ SetStore(db)
           /\ created' = [created EXCEPT
                          !.calls = created.calls + 1,
                          !.raised = created.raised \/ db.raised,
                          \* the schema objects after the first call
                          !.first = IF created.calls = 0 THEN <<db.schema, db.index>>
                                    ELSE created.first]
    /\ UNCHANGED <<dbLock, th, calls, fileVars, envVars, runVars, mainv, gen, out>>

SchemaRows ==
    InitialRows \cup
    { <<[id |-> 1, quote |-> "a", source |-> U2], [id |-> 2, quote |-> "b", source |-> U2]>> }

InitSchema ==
    /\ NoRun
    /\ mainv = [pc |-> "none"] /\ gen = [pc |-> "none"] /\ out = [pc |-> "none"]
    /\ \E impl \in {"scraper", "loader"} :
           created = [calls |-> 0, raised |-> FALSE, first |-> <<>>, impl |-> impl]
    /\ dbSchema \in {"none", "legacy", "current"}
    /\ dbIndex \in BOOLEAN
    /\ dbSchema = "none" => ~dbIndex
    /\ rows \in SchemaRows
    /\ dbSchema = "none" => rows = <<>>
    /\ dbMigrated = 0
    /\ dbLock = 0
    /\ th = [t \in Threads |-> Frame0]
    /\ calls = 0
    /\ sourcesFile = [exists |-> FALSE, text |-> <<>>]
    /\ sources0 = <<>>
    /\ web = [u \in {} |-> {}]
    /\ parallel = FALSE

NextSchema ==
    \/ CreateDatabaseCall
    \/ SaveCall(MainThread)
    \/ SaveInsert(MainThread)
    \/ SaveCommit(MainThread)

SpecSchema == InitSchema /\ [][NextSchema]_vars

\* ------------------------------------------------------------------ schema: properties
Pairs(table) == {<<table[k].quote, table[k].source>> : k \in DOMAIN table}

\* C14: no call of create_database raises; after every call there is one
\* quotes table, and the schema objects are those left by the first call; a
\* call after the first changes neither the schema objects nor the stored
\* rows.
C14_NeverRaisesSameSchema ==
    /\ ~created.raised
    /\ created.calls >= 1 => (TableExists(dbSchema) /\ <<dbSchema, dbIndex>> = created.first)

C14_LaterCallChangesNothing ==
    (created.calls >= 1 /\ created'.calls > created.calls) =>
        /\ dbSchema' = dbSchema /\ dbIndex' = dbIndex
        /\ rows' = rows

C14_CreateIdempotent == []C14_NeverRaisesSameSchema /\ [][C14_LaterCallChangesNothing]_vars

\* The last of the calls has run on a store that had no table at first and
\* into which a batch was saved between two calls.
C14_Witness ==
    /\ created.calls = MaxCreates
    /\ created.first = <<"current", TRUE>>
    /\ dbMigrated = 0
    /\ Len(rows) >= 2
    /\ \E t \in Threads : th[t].pc = "returned" /\ th[t].grew >= 1

\* C15: a call of create_database on the legacy schema leaves the table in the
\* current shape (no created_at, quote unique) with the index on quote and
\* with exactly the (quote, source) pairs it held, as many rows as before; a
\* call that finds the current shape migrates nothing.
C15_MigrationStep ==
    (created'.calls > created.calls) =>
        IF dbSchema = "legacy"
        THEN /\ dbSchema' = "current" /\ dbIndex'
             /\ Pairs(rows') = Pairs(rows) /\ Len(rows') = Len(rows)
             /\ Cardinality(QuoteTexts(rows')) = Len(rows')
             /\ dbMigrated' = dbMigrated + 1
        ELSE /\ dbMigrated' = dbMigrated
             /\ dbSchema = "current" => rows' = rows /\ dbSchema' = "current"

C15_MigratesOnce == [][C15_MigrationStep]_vars

\* ------------------------------------------------------------------ generator
RngStates == 3      \* states of the random generator in one behaviour
MaxCount == 3       \* largest count asked of generate_quotes
MaxDeletes == 1     \* rows removed by another process during one behaviour
MaxOtherDraws == 1  \* draws other code makes from the shared generator

RngValues == {0, 1, 2}
GenCalls == {1, 2}

\* The module-level generator of the random library: a state, and a fixed
\* output for every state (stream). seed(n) puts it in a state that depends on
\* n only; every draw moves it to the next state.
SeedState(n) == n % RngStates
Advance(rng) == (rng + 1) % RngStates
Randbelow(stream, rng, n) == stream[rng] % n

\* generate_quotes:145, `if seed is not None`; no seed is <<>>, seed n is <<n>>.
SeededIfTruthy(seed) == seed # <<>> /\ seed[1] # 0
Seeded(seed) == seed # <<>>

\* random.sample(population, k): k picks from a pool that loses each pick.
RECURSIVE SamplePool(_, _, _, _, _)
SamplePool(stream, pool, k, rng, acc) ==
    IF k = 0 THEN [raised |-> FALSE, ids |-> acc, rng |-> rng]
    ELSE LET n == Len(pool)
             j == Randbelow(stream, rng, n) + 1
             moved == [pool EXCEPT ![j] = pool[n]]
         IN  SamplePool(stream, SubSeq(moved, 1, n - 1), k - 1, Advance(rng),
                        Append(acc, pool[j]))

random_sample(stream, population, k, rng) ==
    IF k < 0 \/ k > Len(population)
    THEN [raised |-> TRUE, ids |-> <<>>, rng |-> rng]    \* ValueError
    ELSE SamplePool(stream, population, k, rng, <<>>)

\* random.choices(population, k = k): k independent picks.
RECURSIVE random_choices(_, _, _, _, _)
random_choices(stream, population, k, rng, acc) ==
    IF k <= 0 THEN [raised |-> FALSE, ids |-> acc, rng |-> rng]
    ELSE random_choices(stream, population, k - 1, Advance(rng),
                        Append(acc, population[Randbelow(stream, rng, Len(population)) + 1]))

\* get_all_quote_ids: SELECT id FROM quotes carries no ORDER BY; SQLite
\* answers it from the index on quote, so the ids come in quote order.
QuoteOrder == <<"a", "b", "c">>
Rank(q) == CHOOSE i \in DOMAIN QuoteOrder : QuoteOrder[i] = q

get_all_quote_ids(table) ==
    IF table = <<>> THEN <<>>
    ELSE LET byQuote == CHOOSE f \in [DOMAIN table -> DOMAIN table] :
                           /\ \A i, j \in DOMAIN table : i # j => f[i] # f[j]
                           /\ \A i, j \in DOMAIN table :
                                  i < j => Rank(table[f[i]].quote) < Rank(table[f[j]].quote)
         IN  [i \in DOMAIN table |-> table[byQuote[i]].id]

\* get_quote_by_id: the row with that id, or None.
get_quote_by_id(table, quote_id) ==
    IF \E k \in DOMAIN table : table[k].id = quote_id
    THEN LET k == CHOOSE k \in DOMAIN table : table[k].id = quote_id
         IN  [id |-> table[k].id, quote |-> table[k].quote, source |-> table[k].source]
    ELSE None

\* generate_quotes:163, the branch between choices and sample.
WithReplacementAlways(count, n) == TRUE
WithReplacement(count, n) == count > n

\* generate_quotes:165, k = count (not actual_count).
DrawCountCapped(count, n) == IF count < n THEN count ELSE n
DrawCount(count, n) == count

\* generate_quotes:174, `if quote:`.
KeepAll(quote) == TRUE
Keep(quote) == quote # None

Gen0 ==
    [pc |-> "idle", call |-> 0, seed |-> <<>>, count |-> 0, rng |-> 0,
     stream |-> <<>>, all_ids |-> <<>>, selected |-> <<>>, k |-> 0,
     quotes |-> <<>>, found |-> <<>>, rows0 |-> <<>>, draws |-> <<>>,
     others |-> 0, deleted |-> 0]

\* generate_quotes, from the entry to the start of the retrieval loop.
GenCall ==
    /\ gen.pc \in {"idle", "returned", "raised"}
    /\ gen.call < Cardinality(GenCalls)
    /\ LET rng1 == IF Seeded(gen.seed) THEN SeedState(gen.seed[1]) ELSE gen.rng
           all_ids == get_all_quote_ids(rows)
           n == Len(all_ids)
           drawn == IF WithReplacement(gen.count, n)
                    THEN random_choices(gen.stream, all_ids, DrawCount(gen.count, n), rng1, <<>>)
                    ELSE random_sample(gen.stream, all_ids, gen.count, rng1)
           g == [gen EXCEPT !.call = @ + 1, !.all_ids = all_ids, !.rows0 = rows,
                            !.quotes = <<>>, !.found = <<>>, !.k = 0, !.selected = <<>>]
       IN  gen' = IF all_ids = <<>>
                  THEN [g EXCEPT !.pc = "returned", !.rng = rng1]
                  ELSE IF drawn.raised
                       THEN [g EXCEPT !.pc = "raised", !.rng = drawn.rng]
                       ELSE [g EXCEPT !.pc = "lookup", !.rng = drawn.rng, !.k = 1,
                                      !.selected = drawn.ids,
                                      !.draws = Append(@, [ids |-> all_ids, sel |-> drawn.ids])]
    /\ UNCHANGED <<storeVars, th, calls, fileVars, envVars, runVars, mainv, created, out>>

\* One turn of the retrieval loop.
GenLookup ==
    /\ gen.pc = "lookup"
    /\ gen.k <= Len(gen.selected)
    /\ LET quote == get_quote_by_id(rows, gen.selected[gen.k])
       IN  gen' = [gen EXCEPT !.k = @ + 1,
                              !.quotes = IF Keep(quote) THEN Append(@, quote) ELSE @,
                              !.found = Append(@, \E k \in DOMAIN rows : rows[k].id = gen.selected[gen.k])]
    /\ UNCHANGED <<storeVars, th, calls, fileVars, envVars, runVars, mainv, created, out>>

GenReturn ==
    /\ gen.pc = "lookup"
    /\ gen.k > Len(gen.selected)
    /\ gen' = [gen EXCEPT !.pc = "returned"]
    /\ UNCHANGED <<storeVars, th, calls, fileVars, envVars, runVars, mainv, created, out>>

\* Other code of the process draws from the same generator, before or between
\* the calls.
OtherDraw ==
    /\ gen.pc # "lookup"
    /\ gen.others < MaxOtherDraws
    /\ gen' = [gen EXCEPT !.rng = Advance(@), !.others = @ + 1]
    /\ UNCHANGED <<storeVars, th, calls, fileVars, envVars, runVars, mainv, created, out>>

\* Another process removes a row from the table.
DeleteRow ==
    /\ gen.deleted < MaxDeletes
    /\ \E k \in DOMAIN rows :
           rows' = SubSeq(rows, 1, k - 1) \o SubSeq(rows, k + 1, Len(rows))
    /\ gen' = [gen EXCEPT !.deleted = @ + 1]
    /\ UNCHANGED <<dbSchema, dbIndex, dbMigrated, dbLock, th, calls, fileVars, envVars,
                   runVars, mainv, created, out>>

GenSeeds == {<<>>, <<0>>, <<1>>}
GenCounts == (0 - 1) .. MaxCount
GenTable ==
    <<[id |-> 1, quote |-> "b", source |-> U1],
      [id |-> 2, quote |-> "a", source |-> U1],
      [id |-> 3, quote |-> "c", source |-> U2]>>
GenRows == {SubSeq(GenTable, 1, n) : n \in 0 .. Len(GenTable)}
Streams == [0 .. RngStates - 1 -> RngValues]

InitGen ==
    /\ NoRun
    /\ mainv = [pc |-> "none"] /\ out = [pc |-> "none"]
    /\ created = [calls |-> 0, raised |-> FALSE, first |-> <<>>, impl |-> "scraper"]
    /\ \E seed \in GenSeeds, count \in GenCounts, stream \in Streams :
           gen = [Gen0 EXCEPT !.seed = seed, !.count = count, !.stream = stream]
    /\ dbSchema = "current" /\ dbIndex = TRUE
    /\ rows \in GenRows
    /\ dbMigrated = 0
    /\ dbLock = 0
    /\ th = [t \in Threads |-> Frame0]
    /\ calls = 0
    /\ sourcesFile = [exists |-> FALSE, text |-> <<>>]
    /\ sources0 = <<>>
    /\ web = [u \in {} |-> {}]
    /\ parallel = FALSE

NextGen == GenCall \/ GenLookup \/ GenReturn \/ OtherDraw \/ DeleteRow

SpecGen == InitGen /\ [][NextGen]_vars

\* ------------------------------------------------------------------ generator: properties
NoRepeat(q) == \A i, j \in DOMAIN q : i # j => q[i] # q[j]
Drawing == gen.pc \in {"lookup", "returned"} /\ gen.all_ids # <<>>

\* C16: when count is at most the number of ids read, generate_quotes draws
\* count ids of the population and no id twice, and no id is returned twice.
C16_NoRepeatWithinPopulation ==
    (Drawing /\ gen.count <= Len(gen.all_ids)) =>
        /\ Len(gen.selected) = gen.count
        /\ Range(gen.selected) \subseteq Range(gen.all_ids)
        /\ NoRepeat(gen.selected)
        /\ NoRepeat(gen.quotes)

\* The whole population of three ids was asked for and returned.
C16_Witness ==
    /\ gen.pc = "returned"
    /\ gen.count = Len(gen.all_ids) /\ Len(gen.all_ids) >= 3
    /\ Len(gen.quotes) = gen.count
    /\ gen.selected # gen.all_ids

C18_SameSeedSameDraw ==
    gen.seed # <<>> =>
        \A i, j \in DOMAIN gen.draws :
            gen.draws[i].ids = gen.draws[j].ids => gen.draws[i].sel = gen.draws[j].sel

\* Two seeded calls drew two ids each from the same population, with a draw
\* by other code between them.
C18_Witness ==
    /\ gen.seed # <<>>
    /\ Len(gen.draws) = 2
    /\ gen.draws[1].ids = gen.draws[2].ids
    /\ Len(gen.draws[1].sel) >= 2
    /\ gen.others >= 1
    /\ gen.pc = "returned"

\* C19: a drawn id whose row is gone is skipped and the call does not fail;
\* the result holds the records of the drawn ids that were found, in draw
\* order, so it is no longer than count (a count that is not negative), and
\* every returned id is one of the ids read at the start.
FoundAt == SelectSeq([k \in DOMAIN gen.found |-> k], LAMBDA k : gen.found[k])

C19_SkipsMissingKeepsOrder ==
    /\ gen.pc = "raised" => gen.count < 0
    /\ gen.pc \in {"lookup", "returned"} =>
           /\ gen.quotes = [i \in DOMAIN FoundAt |-> get_quote_by_id(gen.rows0, gen.selected[FoundAt[i]])]
           /\ gen.count >= 0 => Len(gen.quotes) <= gen.count
           /\ \A i \in DOMAIN gen.quotes : gen.quotes[i].id \in Range(gen.all_ids)

\* A call returned fewer records than it drew because a row was removed
\* after the ids were read, and a later drawn id was still found.
C19_Witness ==
    /\ gen.pc = "returned"
    /\ Len(gen.selected) >= 2
    /\ ~gen.found[1] /\ gen.found[2]
    /\ Len(gen.quotes) < Len(gen.selected)
    /\ gen.quotes # <<>>

\* ------------------------------------------------------------------ export
\* What a writer puts on a handle, line by line.
Line(kind, q) == [kind |-> kind, id |-> q.id, quote |-> q.quote, source |-> q.source]
NoQuote == [id |-> 0, quote |-> "", source |-> <<>>]

\* export_quotes_text: the quote text and a newline for every quote.
export_quotes_text(quotes) == [k \in DOMAIN quotes |-> Line("text", quotes[k])]

\* export_quotes_json: one array of {id, quote, source} objects, then a newline.
export_quotes_json(quotes) ==
    <<Line("[", NoQuote)>> \o [k \in DOMAIN quotes |-> Line("object", quotes[k])]
        \o <<Line("]", NoQuote)>>

\* export_quotes_csv: the header row, then one row for every quote.
export_quotes_csv(quotes) ==
    <<Line("header", NoQuote)>> \o [k \in DOMAIN quotes |-> Line("row", quotes[k])]

VALID_FORMATS == {"text", "json", "csv"}

Written(quotes, format_type) ==
    IF format_type = "text" THEN export_quotes_text(quotes)
    ELSE IF format_type = "json" THEN export_quotes_json(quotes)
    ELSE IF format_type = "csv" THEN export_quotes_csv(quotes)
    ELSE <<>>     \* unknown format: an error is logged, nothing is written

\* export_quotes:261, `if not quotes:` before the destination is opened.
EarlyReturnNever(quotes) == FALSE
EarlyReturn(quotes) == quotes = <<>>

\* output_path: "none" is None, "empty" is the empty string, "file" a path.
Truthy(output_path) == output_path = "file"

\* export_quotes, the whole call: open(output_path, "w") creates or truncates
\* the file, the writer of the format writes, the file is closed.
ExportCall ==
    /\ out.pc = "start"
    /\ out' = IF EarlyReturn(out.quotes)
              THEN [out EXCEPT !.pc = "returned"]
              ELSE IF Truthy(out.output_path)
                   THEN [out EXCEPT !.pc = "returned", !.opened = TRUE,
                                    !.file = [exists |-> TRUE,
                                              text |-> Written(out.quotes, out.format_type)]]
                   ELSE [out EXCEPT !.pc = "returned",
                                    !.stdout = @ \o Written(out.quotes, out.format_type)]
    /\ UNCHANGED <<storeVars, th, calls, fileVars, envVars, runVars, mainv, created, gen>>

ExportQuotes ==
    { <<>>,
      <<[id |-> 2, quote |-> "a", source |-> U1]>>,
      <<[id |-> 2, quote |-> "a", source |-> U1], [id |-> 1, quote |-> "b", source |-> U1]>> }
ExportFormats == VALID_FORMATS \cup {"xml"}
ExportPaths == {"none", "empty", "file"}
ExportFiles ==
    { [exists |-> FALSE, text |-> <<>>],
      [exists |-> TRUE, text |-> <<>>],
      [exists |-> TRUE, text |-> <<Line("text", [id |-> 3, quote |-> "c", source |-> U2])>>] }

InitOut ==
    /\ NoRun
    /\ mainv = [pc |-> "none"] /\ gen = [pc |-> "none"]
    /\ created = [calls |-> 0, raised |-> FALSE, first |-> <<>>, impl |-> "scraper"]
    /\ \E quotes \in ExportQuotes, format_type \in ExportFormats,
          output_path \in ExportPaths, file \in ExportFiles :
           out = [pc |-> "start", quotes |-> quotes, format_type |-> format_type,
                  output_path |-> output_path, file |-> file, file0 |-> file,
                  opened |-> FALSE, stdout |-> <<>>]
    /\ dbSchema = "none" /\ dbIndex = FALSE
    /\ rows = <<>>
    /\ dbMigrated = 0
    /\ dbLock = 0
    /\ th = [t \in Threads |-> Frame0]
    /\ calls = 0
    /\ sourcesFile = [exists |-> FALSE, text |-> <<>>]
    /\ sources0 = <<>>
    /\ web = [u \in {} |-> {}]
    /\ parallel = FALSE

NextOut == ExportCall

SpecOut == InitOut /\ [][NextOut]_vars

\* C20: export_quotes called with an empty list does nothing, whatever the
\* format: it writes nothing to standard output and it neither creates nor
\* truncates the file at output_path.
C20_EmptyExportIsNoOp ==
    (out.pc = "returned" /\ out.quotes = <<>>) =>
        /\ out.file = out.file0
        /\ ~out.opened
        /\ out.stdout = <<>>

\* The call returned for an empty list, the csv format and the path of a file
\* that holds text.
C20_Witness ==
    /\ out.pc = "returned"
    /\ out.quotes = <<>>
    /\ out.format_type = "csv"
    /\ out.output_path = "file"
    /\ out.file0.exists /\ out.file0.text # <<>>

\* ------------------------------------------------------------------ CSV: direct calls
\* save_quotes_to_csv: entry, up to the existence check.
CsvEnter(f, quotes) ==
    LET g == [f EXCEPT !.quotes = quotes, !.given = Append(@, quotes)]
    IN  IF quotes = <<>>
        THEN [g EXCEPT !.pc = "returned", !.ret = 0]     \* if not quotes: return 0
        ELSE [g EXCEPT !.pc = "csv_exists"]

CsvBatches ==
    { <<>>,
      <<[quote |-> JStr("a"), source |-> U1]>>,
      <<[quote |-> JStr("b"), source |-> U2], [quote |-> JStr("a"), source |-> U1]>> }

CsvCall(t) ==
    /\ MayStart(t)
    /\ calls < MaxCsvCalls
    /\ \E quotes \in CsvBatches :
         th' = [th EXCEPT ![t] = CsvEnter([@ EXCEPT !.call = "save_quotes_to_csv"], quotes)]
    /\ calls' = calls + 1
    /\ UNCHANGED <<storeVars, fileVars, envVars, toolVars, runVars>>

\* The file is absent, or was left by earlier calls.
CsvFiles ==
    { [exists |-> FALSE, rows |-> <<>>],
      [exists |-> TRUE,
       rows |-> <<[kind |-> "header"]>> \o CsvRows(<<[quote |-> JStr("c"), source |-> U1]>>)] }

InitCsv ==
    /\ NoTools
    /\ csvFile \in CsvFiles
    /\ orch = [pc |-> "none", sources |-> <<>>, formats |-> <<>>, max_workers |-> 0,
               k |-> 0, total_saved |-> 0, rows0 |-> <<>>, overlapped |-> FALSE,
               inverted |-> FALSE]
    /\ unit = <<>>
    /\ dbSchema = "none" /\ dbIndex = FALSE /\ rows = <<>> /\ dbMigrated = 0 /\ dbLock = 0
    /\ th = [t \in Threads |-> [Frame0 EXCEPT !.file0 = csvFile]]
    /\ calls = 0
    /\ sourcesFile = [exists |-> FALSE, text |-> <<>>]
    /\ sources0 = <<>>
    /\ web = [u \in {} |-> {}]
    /\ parallel \in BOOLEAN

NextCsv ==
    \/ \E t \in Threads : CsvCall(t)
    \/ \E t \in Threads : CsvExists(t)
    \/ \E t \in Threads : CsvOpen(t)
    \/ \E t \in Threads : CsvWrite(t)

SpecCsv == InitCsv /\ [][NextCsv]_vars

\* ------------------------------------------------------------------ CSV: properties
Headers(file) == {k \in DOMAIN file.rows : file.rows[k].kind = "header"}
GivenRows(f) == Concat([k \in DOMAIN f.given |-> CsvRows(f.given[k])])

\* C21: after any sequence of save_quotes_to_csv calls made one after the
\* other on one path, the file is the file as it was (never truncated), then
\* the header if the first call with records found no file, then one row per
\* record in call order, so it holds exactly one header, as its first row; a
\* call returns the number of records given; calls without records leave the
\* file as it was.
C21_AppendOnlyOneHeader ==
    LET f == th[MainThread] IN
    (~parallel /\ ~Busy(MainThread) /\ f.given # <<>>) =>
        /\ f.ret = Len(f.given[Len(f.given)])
        /\ IF GivenRows(f) = <<>> THEN csvFile = f.file0
           ELSE /\ csvFile.exists
                /\ csvFile.rows =
                       (IF f.file0.exists THEN f.file0.rows ELSE <<[kind |-> "header"]>>)
                           \o GivenRows(f)
                /\ Headers(csvFile) = {1}

\* Two calls with records were made on a path without a file.
C21_Witness ==
    /\ ~parallel
    /\ th[MainThread].pc = "returned"
    /\ Len(th[MainThread].given) = 2
    /\ \A k \in DOMAIN th[MainThread].given : th[MainThread].given[k] # <<>>
    /\ ~th[MainThread].file0.exists
    /\ Len(csvFile.rows) >= 3

\* C29: when threads call save_quotes_to_csv at the same time on a path
\* without a file, the file they leave holds the header exactly once, as its
\* first row.
C29_HeaderOnceConcurrent ==
    (parallel /\ (\A t \in Threads : ~Busy(t) /\ ~th[t].file0.exists)
              /\ csvFile.rows # <<>>)
        => Headers(csvFile) = {1}

\* ------------------------------------------------------------------ scrape_source: direct calls
\* scrape_source(source_url, db_path, csv_path, formats), called by one
\* thread; formats is orch.formats and both paths are given.
ScrapeCall(t) ==
    /\ MayStart(t)
    /\ calls < MaxScrapes
    /\ \E url \in DOMAIN web :
         th' = [th EXCEPT ![t] =
                  FetchEnter([Frame0 EXCEPT !.call = "scrape_source", !.file0 = csvFile,
                                            !.store0 = rows],
                             url, MAX_RETRIES)]
    /\ calls' = calls + 1
    /\ UNCHANGED <<storeVars, fileVars, envVars, toolVars, runVars>>

\* What the sources answer: every GET meets one of the responses of its URL.
ScrapeWeb ==
    [u \in {U1, U2, U3, U404} |->
        CASE u = U1 -> {Ok(DocEmpty), Ok(DocList)}
          [] u = U2 -> {Ok(DocHtml), Ok(EmptyText)}
          [] u = U3 -> {NetworkError, Ok(DocNoField)}
          [] OTHER -> {HttpError(404), Ok(DocNull)}]

InitScrape ==
    /\ NoTools
    /\ dbSchema = "current" /\ dbIndex = TRUE /\ dbMigrated = 0 /\ dbLock = 0
    /\ rows \in InitialRows
    /\ th = [t \in Threads |-> Frame0]
    /\ calls = 0
    /\ sourcesFile = [exists |-> TRUE,
                      text |-> U1 \o <<"\n">> \o U404 \o <<"\n">> \o U2 \o <<"\n">>]
    /\ sources0 = sourcesFile.text
    /\ web = ScrapeWeb
    /\ csvFile \in CsvFiles
    /\ \E formats \in FormatLists :
         orch = [pc |-> "none", sources |-> <<>>, formats |-> formats, max_workers |-> 0,
                 k |-> 0, total_saved |-> 0, rows0 |-> <<>>, overlapped |-> FALSE,
                 inverted |-> FALSE]
    /\ unit = <<>>
    /\ parallel = FALSE

NextScrape ==
    \/ \E t \in Threads : ScrapeCall(t)
    \/ \E t \in Threads : Get(t)
    \/ \E t \in Threads : Sleep(t)
    \/ \E t \in Threads : CosRead(t)
    \/ \E t \in Threads : CosOpen(t)
    \/ \E t \in Threads : CosFlush(t)
    \/ \E t \in Threads : SaveInsert(t)
    \/ \E t \in Threads : SaveCommit(t)
    \/ \E t \in Threads : CsvExists(t)
    \/ \E t \in Threads : CsvOpen(t)
    \/ \E t \in Threads : CsvWrite(t)

SpecScrape == InitScrape /\ [][NextScrape]_vars

\* ------------------------------------------------------------------ scrape_source: properties
\* C22: every row the write path has put in the table holds a quote that is
\* text and not empty.
C22_PersistedQuoteNonEmpty ==
    \A k \in DOMAIN rows : rows[k].quote # ""

\* C23: a scrape_source call whose fetch gave no content, or whose content
\* gave no quotes, returns 0 and does not raise, and the table and the CSV
\* file are as they were when it was called.
C23_FailureIsZeroNoWrite ==
    \A t \in Threads :
        LET f == th[t] IN
        (f.call = "scrape_source" /\ f.pc \in {"returned", "raised"}
            /\ (f.result = None \/ extract_quotes(f.result, f.url) = <<>>)) =>
            /\ f.pc = "returned" /\ f.ret = 0
            /\ rows = f.store0
            /\ csvFile = f.file0

\* A call gave up after MAX_RETRIES failed attempts and a later call found no
\* recognised field in its JSON document.
C23_Witness ==
    \E t \in Threads :
        /\ th[t].call = "scrape_source" /\ th[t].pc = "returned"
        /\ th[t].result = Ok(DocNoField).text
        /\ th[t].gets >= 2
        /\ calls = MaxScrapes

\* ------------------------------------------------------------------ generator: main
MAX_COUNT == 10000000

validate_argumentsFromZero(args) == ~(args.count < 0) /\ ~(args.count > MAX_COUNT)
validate_arguments(args) == ~(args.count < 1) /\ ~(args.count > MAX_COUNT)

\* validate_database: the file exists, SELECT COUNT(*) FROM quotes succeeds
\* and counts at least one row.
validate_database(args) ==
    /\ args.database = "present"
    /\ TableExists(dbSchema)          \* else sqlite3.Error: no such table
    /\ Len(rows) # 0

\* The length of what generate_quotes(database, count, seed) returns while
\* nothing else writes the table: no quote without ids, else one per drawn id.
GeneratedLen(count) ==
    IF get_all_quote_ids(rows) = <<>> THEN 0
    ELSE IF count < 0 THEN 0 ELSE count

\* main, up to `quotes = generate_quotes(...)`.
GenMainStart ==
    /\ mainv.pc = "gen_start"
    /\ mainv' = IF ~validate_arguments(mainv.args) THEN [mainv EXCEPT !.pc = "returned", !.code = 1]
                ELSE IF ~validate_database(mainv.args)
                THEN [mainv EXCEPT !.pc = "returned", !.code = 1]
                ELSE [mainv EXCEPT !.pc = "generate"]
    /\ UNCHANGED <<storeVars, th, calls, fileVars, envVars, runVars, created, gen, out>>

\* quotes = generate_quotes(args.database, args.count, args.seed)
GenMainGenerate ==
    /\ mainv.pc = "generate"
    /\ mainv' = LET n == GeneratedLen(mainv.args.count)
                IN  IF n = 0
                    THEN [mainv EXCEPT !.pc = "returned", !.code = 1, !.generated = TRUE]
                    ELSE [mainv EXCEPT !.pc = "export", !.generated = TRUE, !.quotes = n]
    /\ UNCHANGED <<storeVars, th, calls, fileVars, envVars, runVars, created, gen, out>>

\* export_quotes(quotes, args.format, args.output); return 0
GenMainExport ==
    /\ mainv.pc = "export"
    /\ mainv' = [mainv EXCEPT !.pc = "returned", !.code = 0, !.exported = TRUE,
                              !.file = IF mainv.args.output = "file"
                                       THEN [exists |-> TRUE, fresh |-> TRUE]
                                       ELSE @]
    /\ UNCHANGED <<storeVars, th, calls, fileVars, envVars, runVars, created, gen, out>>

GenMainCounts == {0 - 1, 0, 1, 2, MAX_COUNT - 1, MAX_COUNT, MAX_COUNT + 1}
GenMainFiles == {[exists |-> FALSE, fresh |-> FALSE], [exists |-> TRUE, fresh |-> FALSE]}

InitGenMain ==
    /\ NoRun
    /\ created = [calls |-> 0, raised |-> FALSE, first |-> <<>>, impl |-> "scraper"]
    /\ gen = [pc |-> "none"] /\ out = [pc |-> "none"]
    /\ \E count \in GenMainCounts, database \in {"missing", "present"},
          output \in {"none", "file"}, file \in GenMainFiles :
           mainv = [pc |-> "gen_start",
                    args |-> [count |-> count, database |-> database, output |-> output],
                    code |-> 0, generated |-> FALSE, exported |-> FALSE, quotes |-> 0,
                    file |-> file, file0 |-> file]
    /\ dbSchema \in {"none", "current"}
    /\ dbIndex = (dbSchema = "current")
    /\ rows \in GenRows
    /\ dbSchema = "none" => rows = <<>>
    /\ mainv.args.database = "missing" => dbSchema = "none"
    /\ dbMigrated = 0
    /\ dbLock = 0
    /\ th = [t \in Threads |-> Frame0]
    /\ calls = 0
    /\ sourcesFile = [exists |-> FALSE, text |-> <<>>]
    /\ sources0 = <<>>
    /\ web = [u \in {} |-> {}]
    /\ parallel = FALSE

NextGenMain == GenMainStart \/ GenMainGenerate \/ GenMainExport

SpecGenMain == InitGenMain /\ [][NextGenMain]_vars

\* C24: the generator's main returns 1 without calling generate_quotes or
\* export_quotes and without writing the destination file when count is
\* below 1 or above 10,000,000, or when the database is missing or holds no
\* quote; with a populated database the counts 1 and 10,000,000 pass the
\* validation and the run returns 0.
C24_InvalidInputNoOutput ==
    mainv.pc = "returned" =>
        LET a == mainv.args
            invalid == a.count < 1 \/ a.count > 10000000
                           \/ a.database = "missing" \/ Len(rows) = 0
        IN  /\ invalid => /\ mainv.code = 1
                          /\ ~mainv.generated /\ ~mainv.exported
                          /\ mainv.file = mainv.file0
            /\ (~invalid /\ a.count \in {1, 10000000}) =>
                   mainv.generated /\ mainv.exported /\ mainv.code = 0

\* A run with count 10,000,001 on a populated database and with an output
\* path was refused.
C24_Witness ==
    /\ mainv.pc = "returned"
    /\ mainv.args.count = MAX_COUNT + 1 /\ mainv.code = 1
    /\ Len(rows) > 0 /\ mainv.args.database = "present"
    /\ mainv.args.output = "file"

\* ------------------------------------------------------------------ extraction: direct calls
\* Further JSON documents.
\*   [{"value": "a", "joke": "c"}, {"id": "x"}, "b", ["a"]]
DocMixed ==
    JsonText(JList(<<JDict([value |-> JStr("a"), joke |-> JStr("c")]), JObject,
                     JStr("b"), JList(<<JStr("a")>>)>>))
\*   {"joke": "c", "result": ["b"]}
DocJoke == JsonText(JDict([joke |-> JStr("c"), result |-> JList(<<JStr("b")>>)]))
\*   {"result": "a"}
DocResultText == JsonText(JDict([result |-> JStr("a")]))
\*   "a"
DocText == JsonText(JStr("a"))

ExtractContents ==
    { DocList, DocSingle, DocNull, DocEmpty, DocNoField, DocMixed, DocJoke,
      DocResultText, DocText, JsonText(JList(<<>>)),
      DocHtml, DocTwice, DocArticle, DocLong, HtmlText(<<>>) }

ExtractSources == {U1, UParade, UFactsite, UFr, UFactinate}

Extractors ==
    { "extract_quotes", "extract_quotes_from_json", "extract_quotes_from_html",
      "extract_quotes_from_parade", "extract_quotes_from_thefactsite",
      "extract_quotes_from_chucknorrisfacts_fr", "extract_quotes_from_factinate" }

Extracted(fn, content, source) ==
    CASE fn = "extract_quotes" -> extract_quotes(content, source)
      [] fn = "extract_quotes_from_json" -> extract_quotes_from_json(content, source)
      [] fn = "extract_quotes_from_html" -> extract_quotes_from_html(content, source)
      [] fn = "extract_quotes_from_parade" -> extract_quotes_from_parade(content, source)
      [] fn = "extract_quotes_from_thefactsite" ->
            extract_quotes_from_thefactsite(content, source)
      [] fn = "extract_quotes_from_chucknorrisfacts_fr" ->
            extract_quotes_from_chucknorrisfacts_fr(content, source)
      [] fn = "extract_quotes_from_factinate" ->
            extract_quotes_from_factinate(content, source)

\* One call of an extraction function: th[t].result is the content given,
\* th[t].url the source, th[t].quotes the list returned.
ExtractCall(t) ==
    /\ MayStart(t)
    /\ \E fn \in Extractors, content \in ExtractContents, source \in ExtractSources :
         th' = [th EXCEPT ![t] = [Frame0 EXCEPT !.pc = "returned", !.call = fn,
                                                !.result = content, !.url = source,
                                                !.quotes = Extracted(fn, content, source)]]
    /\ UNCHANGED <<storeVars, fileVars, envVars, toolVars, runVars, calls>>

InitExtract ==
    /\ NoTools
    /\ NoRun
    /\ dbSchema = "none" /\ dbIndex = FALSE /\ rows = <<>> /\ dbMigrated = 0 /\ dbLock = 0
    /\ th = [t \in Threads |-> Frame0]
    /\ calls = 0
    /\ sourcesFile = [exists |-> FALSE, text |-> <<>>]
    /\ sources0 = <<>>
    /\ web = [u \in {} |-> {}]
    /\ parallel = FALSE

NextExtract == \E t \in Threads : ExtractCall(t)

SpecExtract == InitExtract /\ [][NextExtract]_vars

Returned(t, fn) == th[t].pc = "returned" /\ th[t].call = fn

\* The entries of a parsed document: the object itself when it has a "value"
\* or a "joke" field, else the elements of its "result" list, or the elements
\* of a top-level list.
Entries(data) ==
    IF data.t = "dict"
    THEN IF {"value", "joke"} \cap DOMAIN data.f # {} THEN <<data>>
         ELSE IF "result" \in DOMAIN data.f /\ data.f.result.t = "list"
         THEN data.f.result.items
         ELSE <<>>
    ELSE IF data.t = "list" THEN data.items
    ELSE <<>>

Recognised(e) ==
    \/ e.t = "str"
    \/ e.t = "dict" /\ {"value", "joke"} \cap DOMAIN e.f # {}

QuoteOf(e) ==
    IF e.t = "str" THEN e
    ELSE IF "value" \in DOMAIN e.f THEN e.f.value ELSE e.f.joke

\* C25: extract_quotes_from_json returns, in input order, exactly one record
\* per recognised entry (the object with a "value" or else a "joke" field;
\* each element of a "result" list or of a top-level list that is a string or
\* an object with "value" or else "joke"), skips every other entry, and every
\* record carries the source passed in.
C25_OneRecordPerRecognisedEntry ==
    \A t \in Threads :
        (Returned(t, "extract_quotes_from_json") /\ th[t].result.kind = "json") =>
            LET recognised == SelectSeq(Entries(th[t].result.data), Recognised)
            IN  /\ Len(th[t].quotes) = Len(recognised)
                /\ \A k \in DOMAIN recognised :
                     th[t].quotes[k] = [quote |-> QuoteOf(recognised[k]),
                                        source |-> th[t].url]

\* A list with an object holding both fields, an object holding neither, a
\* string and a nested list gave two records.
C25_Witness ==
    /\ Returned(MainThread, "extract_quotes_from_json")
    /\ th[MainThread].result = DocMixed
    /\ th[MainThread].url = UParade
    /\ Len(th[MainThread].quotes) = 2

SiteProfiles ==
    { "extract_quotes_from_parade", "extract_quotes_from_thefactsite",
      "extract_quotes_from_chucknorrisfacts_fr", "extract_quotes_from_factinate" }

Filtered(quotes) ==
    \A k \in DOMAIN quotes :
        /\ TextLen(quotes[k].quote.s) > 20
        /\ TextLen(quotes[k].quote.s) < 500
        /\ HasMarker(quotes[k].quote.s)

\* C26 as stated: every quote an HTML profile returns, the generic fallback
\* included, is longer than 20 characters, shorter than 500 and contains
\* "chuck norris" in any case.
C26_EveryProfileFilters ==
    \A t \in Threads :
        (th[t].pc = "returned"
         /\ th[t].call \in SiteProfiles \cup {"extract_quotes_from_html"}) =>
            Filtered(th[t].quotes)

\* C26: every quote a site-specific HTML profile returns is longer than 20
\* characters, shorter than 500 and contains "chuck norris" in any case.
C26_SiteProfilesFilter ==
    \A t \in Threads :
        (th[t].pc = "returned" /\ th[t].call \in SiteProfiles) => Filtered(th[t].quotes)

\* The French profile met a text of 500 characters, a quote without the
\* phrase and a paragraph, and returned the paragraph alone.
C26_Witness ==
    /\ Returned(MainThread, "extract_quotes_from_chucknorrisfacts_fr")
    /\ th[MainThread].result = DocLong
    /\ Len(th[MainThread].quotes) = 1

QuoteTextsOf(quotes) == [k \in DOMAIN quotes |-> quotes[k].quote]

\* C27 as stated: the generic fallback profile returns no two records with
\* the same quote text.
C27_GenericNoDuplicates ==
    \A t \in Threads :
        Returned(t, "extract_quotes_from_html") => NoRepeat(QuoteTextsOf(th[t].quotes))

\* C27: the Parade profile returns no two records with the same quote text,
\* and keeps the first occurrence of each.
C27_ParadeNoDuplicates ==
    \A t \in Threads :
        (Returned(t, "extract_quotes_from_parade") /\ th[t].result.kind = "html") =>
            LET all == SelectAll(<<"div.article-body p", "p", "li", "[class*='joke']",
                                   "[class*='fact']">>, th[t].result.elems, FALSE,
                                 th[t].url)
            IN  /\ NoRepeat(QuoteTextsOf(th[t].quotes))
                /\ \A k \in DOMAIN th[t].quotes :
                     \E m \in DOMAIN all :
                        /\ all[m] = th[t].quotes[k]
                        /\ \A j \in 1..(m - 1) : all[j] # all[m]
                        /\ \A i \in 1..(k - 1) :
                             \E j \in 1..(m - 1) : all[j] = th[t].quotes[i]

\* A paragraph that three selectors match was returned once.
C27_Witness ==
    /\ Returned(MainThread, "extract_quotes_from_parade")
    /\ th[MainThread].result = DocArticle
    /\ Len(th[MainThread].quotes) = 2

====
